---- MODULE Spec2Model ----
(***************************************************************************)
(* A model of the CV management system: the WhatsApp webhook (main.py),    *)
(* the record validator and the line parser (main.py), the extractor's     *)
(* remote call with its regex fallback (extract.py) and the Google Sheets  *)
(* store with its duplicate check (google_sheets.py).                      *)
(*                                                                         *)
(* A Python str is a sequence of one-character strings, so that the string *)
(* operations of the code (strip, lower, split, re.sub, title) are         *)
(* computed and not assumed.  None is the record None where the code       *)
(* returns a dict or None, and row number 0 where it returns an int or     *)
(* None (both are falsy in the code's tests).                              *)
(***************************************************************************)
EXTENDS Integers, Sequences, FiniteSets, TLC

(***************************************************************************)
(* Characters and the str methods the code uses                            *)
(***************************************************************************)
LowerLetters == <<"a","b","c","d","e","f","g","h","i","j","k","l","m",
                  "n","o","p","q","r","s","t","u","v","w","x","y","z">>
UpperLetters == <<"A","B","C","D","E","F","G","H","I","J","K","L","M",
                  "N","O","P","Q","R","S","T","U","V","W","X","Y","Z">>
DigitChars == {"0","1","2","3","4","5","6","7","8","9"}
SpaceChars == {" ", "\t", "\n", "\r"}

IsLower(c) == \E i \in 1..26 : LowerLetters[i] = c
IsUpper(c) == \E i \in 1..26 : UpperLetters[i] = c
IsAlpha(c) == IsLower(c) \/ IsUpper(c)
IsDigit(c) == c \in DigitChars
IsSpace(c) == c \in SpaceChars

ToLower(c) == IF IsUpper(c) THEN LowerLetters[CHOOSE i \in 1..26 : UpperLetters[i] = c] ELSE c
ToUpper(c) == IF IsLower(c) THEN UpperLetters[CHOOSE i \in 1..26 : LowerLetters[i] = c] ELSE c

\* str.lower() and str.upper()
Lower(s) == [i \in 1..Len(s) |-> ToLower(s[i])]
Upper(s) == [i \in 1..Len(s) |-> ToUpper(s[i])]

SetMin(S) == CHOOSE x \in S : \A y \in S : x <= y
SetMax(S) == CHOOSE x \in S : \A y \in S : y <= x

\* str.strip()
Strip(s) ==
    LET keep == {i \in 1..Len(s) : ~IsSpace(s[i])}
    IN  IF keep = {} THEN <<>> ELSE SubSeq(s, SetMin(keep), SetMax(keep))

\* The first index of seq whose element is not none, or 0
FirstNot(seq, none) ==
    IF \A i \in 1..Len(seq) : seq[i] = none THEN 0
    ELSE SetMin({i \in 1..Len(seq) : seq[i] # none})
\* s[i..ends[i]] for the first i that ends has a match for, or the empty str
FirstMatch(s, ends) ==
    IF FirstNot(ends, 0) = 0 THEN <<>>
    ELSE SubSeq(s, FirstNot(ends, 0), ends[FirstNot(ends, 0)])
MaxOr0(S) == IF S = {} THEN 0 ELSE SetMax(S)

\* sub in s
Contains(s, sub) ==
    \E i \in 1..(Len(s) - Len(sub) + 1) : SubSeq(s, i, i + Len(sub) - 1) = sub

\* s.startswith(pre)
StartsWith(s, pre) == Len(s) >= Len(pre) /\ SubSeq(s, 1, Len(pre)) = pre

\* s.count(c) for a single character c
CountChar(s, c) == Cardinality({i \in 1..Len(s) : s[i] = c})

\* s.replace(c, '') for a single character c
RemoveChar(s, c) == SelectSeq(s, LAMBDA x : x # c)

\* re.sub(r'[^\d]', '', s) and re.sub(r'\D', '', s)
DigitsOnly(s) == SelectSeq(s, IsDigit)

\* re.sub(r'[^\d+]', '', s)
DigitsAndPlus(s) == SelectSeq(s, LAMBDA x : IsDigit(x) \/ x = "+")

\* The k-th smallest element of a finite set of integers
Nth(S, k) == CHOOSE x \in S : Cardinality({y \in S : y <= x}) = k

\* s.split(sep) for a single character sep: the pieces between the separators
Split(s, sep) ==
    LET at == {i \in 1..Len(s) : s[i] = sep}
        n == Cardinality(at)
        first(k) == IF k = 1 THEN 1 ELSE Nth(at, k - 1) + 1
        last(k) == IF k = n + 1 THEN Len(s) ELSE Nth(at, k) - 1
    IN  [k \in 1..(n + 1) |-> SubSeq(s, first(k), last(k))]

\* s.split(sep, 1)[1]: what follows the first separator (the code calls it
\* only on lines that hold one)
AfterFirst(s, sep) ==
    LET at == SetMin({i \in 1..Len(s) : s[i] = sep})
    IN  SubSeq(s, at + 1, Len(s))

\* s.split(): the maximal runs of non-whitespace
Words(s) ==
    LET starts == {i \in 1..Len(s) : ~IsSpace(s[i]) /\ (i = 1 \/ IsSpace(s[i - 1]))}
        ends == {i \in 1..Len(s) : ~IsSpace(s[i]) /\ (i = Len(s) \/ IsSpace(s[i + 1]))}
    IN  [k \in 1..Cardinality(starts) |-> SubSeq(s, Nth(starts, k), Nth(ends, k))]

\* str.title(): a letter that follows a letter is lowered, any other letter
\* is raised
Title(s) ==
    [i \in 1..Len(s) |->
        IF ~IsAlpha(s[i]) THEN s[i]
        ELSE IF i > 1 /\ IsAlpha(s[i - 1]) THEN ToLower(s[i]) ELSE ToUpper(s[i])]

\* sep.join(parts)
RECURSIVE Join(_, _)
Join(parts, sep) ==
    IF parts = <<>> THEN <<>>
    ELSE IF Len(parts) = 1 THEN parts[1]
    ELSE parts[1] \o sep \o Join(Tail(parts), sep)

\* The sentinel 'N/A'
NA == <<"N", "/", "A">>
\* The value None where the code returns a dict or None
None == [tag |-> "None"]


(***************************************************************************)
(* The record validator (main.py)                                          *)
(***************************************************************************)
\* A record of the seven fields, as every extraction path builds it
Record(name, email, phone, skills, experience, education, location) ==
    [tag |-> "dict", name |-> name, email |-> email, phone |-> phone,
     skills |-> skills, experience |-> experience, education |-> education,
     location |-> location]

has_name(cv_data) ==
    cv_data.name # <<>> /\ cv_data.name # NA /\ Len(Strip(cv_data.name)) > 0
has_email(cv_data) ==
    cv_data.email # <<>> /\ cv_data.email # NA /\ Contains(cv_data.email, <<"@">>)
MinPhoneLen == 10
\* has_phone with the bound taken strictly: a ten-character phone is too short
has_phone_strict(cv_data) ==
    cv_data.phone # <<>> /\ cv_data.phone # NA /\ Len(Strip(cv_data.phone)) > MinPhoneLen
has_phone(cv_data) ==
    cv_data.phone # <<>> /\ cv_data.phone # NA /\ Len(Strip(cv_data.phone)) >= MinPhoneLen

\* (is_valid, missing_fields, has_optional_missing)
validate_cv_data(cv_data) ==
    LET missing_optional ==
            {f \in {"skills", "experience", "education", "location"} :
                cv_data[f] = <<>> \/ cv_data[f] = NA}
    IN  IF ~has_name(cv_data)
        THEN [is_valid |-> FALSE, missing_fields |-> <<"name">>,
              has_optional_missing |-> FALSE]
        ELSE IF ~has_email(cv_data) /\ ~has_phone(cv_data)
        THEN [is_valid |-> FALSE, missing_fields |-> <<"email or phone">>,
              has_optional_missing |-> FALSE]
        ELSE [is_valid |-> TRUE, missing_fields |-> <<>>,
              has_optional_missing |-> missing_optional # {}]

(***************************************************************************)
(* The store (google_sheets.py): a sheet is the sequence of its rows, the  *)
(* header first; a row is the sequence of its ten cells.                   *)
(***************************************************************************)
HEADERS == << <<"T","i","m","e","s","t","a","m","p">>, <<"N","a","m","e">>,
              <<"E","m","a","i","l">>, <<"P","h","o","n","e">>,
              <<"S","k","i","l","l","s">>,
              <<"E","x","p","e","r","i","e","n","c","e">>,
              <<"E","d","u","c","a","t","i","o","n">>,
              <<"L","o","c","a","t","i","o","n">>,
              <<"W","h","a","t","s","A","p","p"," ","N","u","m","b","e","r">>,
              <<"S","t","a","t","u","s">> >>
StatusNew == <<"N","e","w">>
StatusUpdated == <<"U","p","d","a","t","e","d">>
\* Columns of a row, 1-based (row[2] and row[3] of the code are 3 and 4 here)
ColName == 2
ColEmail == 3
ColPhone == 4
ColStatus == 10
MinCols == 4

\* The tests of check_duplicate's loop body on one row
email_match(row, email) ==
    LET existing_email == Lower(Strip(row[ColEmail]))
    IN  /\ Lower(email) # Lower(NA)
        /\ existing_email # Lower(NA)
        /\ existing_email = Lower(email)
phone_match(row, phone) ==
    LET clean_existing_phone == DigitsOnly(Strip(row[ColPhone]))
        clean_input_phone == DigitsOnly(phone)
    IN  /\ clean_input_phone # <<>>
        /\ clean_existing_phone # <<>>
        /\ clean_existing_phone = clean_input_phone
row_matches(row, email, phone) ==
    Len(row) >= MinCols /\ (email_match(row, email) \/ phone_match(row, phone))

\* check_duplicate(email, phone) on the rows it read; read_ok = FALSE is
\* get_all_values raising, which the except clause turns into (False, None, None)
NoDuplicate == [is_duplicate |-> FALSE, row_number |-> 0, existing_data |-> <<>>]
\* The return inside the loop, at the first row idx that matches (0: none)
duplicate_at(all_values, idx) ==
    IF idx = 0 THEN NoDuplicate
    ELSE [is_duplicate |-> TRUE, row_number |-> idx, existing_data |-> all_values[idx]]
check_duplicate(all_values, read_ok, email, phone) ==
    IF ~read_ok THEN NoDuplicate
    ELSE duplicate_at(all_values,
            FirstNot([idx \in 1..Len(all_values) |->
                        idx >= 2 /\ row_matches(all_values[idx], email, phone)], FALSE))

\* worksheet.delete_rows(row_number): the rows below move up
delete_rows(rows, row_number) ==
    IF row_number \in 1..Len(rows)
    THEN SubSeq(rows, 1, row_number - 1) \o SubSeq(rows, row_number + 1, Len(rows))
    ELSE rows

\* The cleaning of the WhatsApp number and of the phone in append_cv_data
WhatsAppPrefix == <<"w","h","a","t","s","a","p","p",":">>
RECURSIVE RemoveAll(_, _)
RemoveAll(s, sub) ==
    IF Len(s) < Len(sub) \/ sub = <<>> THEN s
    ELSE IF SubSeq(s, 1, Len(sub)) = sub
         THEN RemoveAll(SubSeq(s, Len(sub) + 1, Len(s)), sub)
         ELSE <<s[1]>> \o RemoveAll(Tail(s), sub)
StripQuotes(s) == RemoveChar(RemoveChar(s, "'"), "\"")
CollapsePlus(s) ==
    IF Contains(s, <<"+">>) THEN <<"+">> \o RemoveChar(s, "+") ELSE s
clean_whatsapp_number(phone_number) ==
    LET s1 == Strip(phone_number)
        s2 == IF StartsWith(s1, WhatsAppPrefix) THEN Strip(RemoveAll(s1, WhatsAppPrefix)) ELSE s1
    IN  CollapsePlus(DigitsAndPlus(StripQuotes(s2)))
clean_phone(phone) ==
    IF phone # NA THEN CollapsePlus(DigitsAndPlus(StripQuotes(Strip(phone)))) ELSE phone

\* row_data of append_cv_data; cv_data carries phone_number and
\* submission_timestamp, which process_cv_data adds
row_data_of(cv_data, is_duplicate) ==
    << StripQuotes(Strip(cv_data.submission_timestamp)),
       cv_data.name, cv_data.email, clean_phone(cv_data.phone),
       cv_data.skills, cv_data.experience, cv_data.education, cv_data.location,
       clean_whatsapp_number(cv_data.phone_number),
       IF is_duplicate THEN StatusUpdated ELSE StatusNew >>

(***************************************************************************)
(* The lightweight line parser for text messages (main.py)                 *)
(***************************************************************************)
\* The end of the longest run of characters satisfying P that starts at i
\* (i - 1 when s[i] does not satisfy P)
RunEnd(s, i, P(_)) ==
    SetMax({i - 1} \cup {j \in i..Len(s) : \A m \in i..j : P(s[m])})

IsEmailLocalChar(c) == IsAlpha(c) \/ IsDigit(c) \/ c \in {".", "_", "%", "+", "-"}
IsEmailDomainChar(c) == IsAlpha(c) \/ IsDigit(c) \/ c \in {".", "-"}

\* The match of [a-zA-Z0-9._%+-]+@[a-zA-Z0-9.-]+\.[a-zA-Z]{2,} that starts at
\* i, as the position of its last character, or 0: the local part is the whole run before the
\* '@', the domain backtracks to its last dot followed by two letters, and
\* the letters after that dot are all taken
EmailMatchAt(s, i) ==
    LET j == RunEnd(s, i, IsEmailLocalChar)
        k == RunEnd(s, j + 2, IsEmailDomainChar)
        dots == {d \in (j + 2)..(k - 1) :
                    /\ d + 3 <= Len(s)
                    /\ s[d + 1] = "."
                    /\ IsAlpha(s[d + 2]) /\ IsAlpha(s[d + 3])}
    IN  IF j >= i /\ j + 1 <= Len(s) /\ s[j + 1] = "@" /\ dots # {}
        THEN RunEnd(s, SetMax(dots) + 2, IsAlpha)
        ELSE 0

\* re.search of that pattern: the leftmost match, or <<>> for no match
EmailSearch(s) == FirstMatch(s, [i \in 1..Len(s) |-> EmailMatchAt(s, i)])

\* lines = [line.strip() for line in text.split('\n') if line.strip()]
StripAll(lines) == [i \in 1..Len(lines) |-> Strip(lines[i])]
StrippedLines(text) == SelectSeq(StripAll(Split(text, "\n")), LAMBDA l : l # <<>>)

LabelName == <<"n","a","m","e",":">>
LabelEmail == <<"e","m","a","i","l",":">>
LabelPhone == <<"p","h","o","n","e",":">>
LabelSkills == <<"s","k","i","l","l","s",":">>
LabelExperience == <<"e","x","p","e","r","i","e","n","c","e",":">>
LabelEducation == <<"e","d","u","c","a","t","i","o","n",":">>
LabelLocation == <<"l","o","c","a","t","i","o","n",":">>
MinPhoneDigits == 10
MaxPhoneDigits == 15
MaxBarePhoneLine == 30
MinSkillCommas == 2
MaxNameLine == 50
MinNameWords == 2
MaxNameWords == 4
MinSkillsLine == 10
MinExperienceLine == 15
RoleWords == {<<"i","n","t","e","r","n">>, <<"d","e","v","e","l","o","p","e","r">>, <<"e","n","g","i","n","e","e","r">>, <<"m","a","n","a","g","e","r">>}
degree_keywords == {<<"b",".","t","e","c","h">>, <<"b","t","e","c","h">>, <<"m",".","t","e","c","h">>, <<"m","t","e","c","h">>, <<"b","a","c","h","e","l","o","r">>, <<"m","a","s","t","e","r">>, <<"m","b","a">>, <<"d","e","g","r","e","e">>, <<"u","n","i","v","e","r","s","i","t","y">>, <<"c","o","l","l","e","g","e">>}

EmptyRecord == Record(NA, NA, NA, NA, NA, NA, NA)

\* The value a label line gives: line.split(':', 1)[1].strip()
LabelValue(line) == Strip(AfterFirst(line, ":"))

\* Claim without the mark on the line: used_lines stays as it is
ClaimUnmarked(st, i, field, value) ==
    [cv_data |-> [st.cv_data EXCEPT ![field] = value],
     used_lines |-> st.used_lines,
     source |-> [st.source EXCEPT ![field] = i]]
Claim(st, i, field, value) ==
    [cv_data |-> [st.cv_data EXCEPT ![field] = value],
     used_lines |-> st.used_lines \cup {i},
     source |-> [st.source EXCEPT ![field] = i]]

ValidPhoneDigits(digits) == Len(digits) >= MinPhoneDigits /\ Len(digits) <= MaxPhoneDigits

\* One turn of the labelled loop (for i, line in enumerate(lines)): the
\* branches in the order of the code, each ending the turn with its continue
ClaimMatch(st, i, field, match) ==
    IF match # <<>> THEN Claim(st, i, field, match) ELSE st
LabelledStep(st, i, line) ==
    LET line_lower == Lower(line)
        cv == st.cv_data
    IN  IF StartsWith(line_lower, LabelName)
        THEN Claim(st, i, "name", Title(LabelValue(line)))
        ELSE IF StartsWith(line_lower, LabelEmail)
        THEN (IF Contains(LabelValue(line), <<"@">>)
              THEN Claim(st, i, "email", LabelValue(line)) ELSE st)
        ELSE IF Contains(line, <<"@">>) /\ cv.email = NA
        THEN ClaimMatch(st, i, "email", EmailSearch(line))
        ELSE IF StartsWith(line_lower, LabelPhone)
        THEN (IF ValidPhoneDigits(DigitsOnly(LabelValue(line)))
              THEN Claim(st, i, "phone", DigitsOnly(LabelValue(line))) ELSE st)
        ELSE IF cv.phone = NA
        THEN (IF ValidPhoneDigits(DigitsOnly(line)) /\ Len(line) < MaxBarePhoneLine
              THEN Claim(st, i, "phone", DigitsOnly(line)) ELSE st)
        ELSE IF StartsWith(line_lower, LabelSkills)
        THEN Claim(st, i, "skills", LabelValue(line))
        ELSE IF cv.skills = NA /\ CountChar(line, ",") >= MinSkillCommas
        THEN Claim(st, i, "skills", line)
        ELSE IF StartsWith(line_lower, LabelExperience)
        THEN Claim(st, i, "experience", LabelValue(line))
        ELSE IF StartsWith(line_lower, LabelEducation)
        THEN Claim(st, i, "education", LabelValue(line))
        ELSE IF StartsWith(line_lower, LabelLocation)
        THEN Claim(st, i, "location", LabelValue(line))
        ELSE st

RECURSIVE LabelledPass(_, _, _)
LabelledPass(st, lines, i) ==
    IF i > Len(lines) THEN st
    ELSE LabelledPass(LabelledStep(st, i, lines[i]), lines, i + 1)

\* A fallback scan: the first line not yet used that passes the test claims
\* the field, when the field is still the sentinel
FallbackScan(st, lines, field, Test(_), Value(_)) ==
    LET hits == {i \in 1..Len(lines) : i \notin st.used_lines /\ Test(lines[i])}
    IN  IF st.cv_data[field] = NA /\ hits # {}
        THEN Claim(st, SetMin(hits), field, Value(lines[SetMin(hits)]))
        ELSE st

\* word.replace('.', '').isalpha()
IsAlphaWord(word) ==
    LET w == RemoveChar(word, ".") IN w # <<>> /\ \A k \in 1..Len(w) : IsAlpha(w[k])
LooksLikeName(line) ==
    /\ Len(Words(line)) >= MinNameWords /\ Len(Words(line)) <= MaxNameWords
    /\ \A k \in 1..Len(Words(line)) : IsAlphaWord(Words(line)[k])
    /\ Len(line) < MaxNameLine
LooksLikeSkills(line) == Contains(line, <<",">>) /\ Len(line) > MinSkillsLine
LooksLikeExperience(line) ==
    \/ Contains(line, <<" ", "-", " ">>) /\ Len(line) > MinExperienceLine
    \/ \E word \in RoleWords : Contains(Lower(line), word)
LooksLikeEducation(line) == \E keyword \in degree_keywords : Contains(Lower(line), keyword)
Same(line) == line

\* The parse of a text message, with the lines each field was taken from
\* (source: 0 for a field no line gave)
NothingParsed ==
    [cv_data |-> EmptyRecord, used_lines |-> {},
     source |-> [f \in {"name", "email", "phone", "skills", "experience",
                         "education", "location"} |-> 0]]
NameScan(st, lines) == FallbackScan(st, lines, "name", LooksLikeName, Title)
SkillsScan(st, lines) == FallbackScan(st, lines, "skills", LooksLikeSkills, Same)
ExperienceScan(st, lines) ==
    FallbackScan(st, lines, "experience", LooksLikeExperience, Same)
EducationScan(st, lines) ==
    FallbackScan(st, lines, "education", LooksLikeEducation, Same)
\* The labelled loop, then the four scans in the order of the code
parse_lines(lines) ==
    EducationScan(
        ExperienceScan(
            SkillsScan(
                NameScan(LabelledPass(NothingParsed, lines, 1), lines),
                lines),
            lines),
        lines)
simple_parse(text) == parse_lines(StrippedLines(text))

\* extract_simple_cv_data(text): the record (no str makes the code raise, so
\* the except clause that returns None is never entered)
extract_simple_cv_data(text) == simple_parse(text).cv_data

(***************************************************************************)
(* Inbound messages                                                        *)
(***************************************************************************)
\* The bodies of the text messages the model receives
BodyAsha == <<"N","a","m","e",":"," ","A","s","h","a"," ","R","a","o","\n","E","m","a","i","l",":"," ","a","s","h","a",".","r","a","o","@","e","x","a","m","p","l","e",".","c","o","m","\n","P","h","o","n","e",":"," ","9","8","7","6","5","4","3","2","1","0">>
BodyRavi == <<"N","a","m","e",":"," ","R","a","v","i"," ","K","u","m","a","r","\n","E","m","a","i","l",":"," ","r","a","v","i","@","e","x","a","m","p","l","e",".","c","o","m","\n","P","h","o","n","e",":"," ","+","9","1"," ","1","2","3","4","5"," ","6","7","8","9","0">>
BodyAshaNewPhone == <<"N","a","m","e",":"," ","A","s","h","a"," ","R","a","o","\n","E","m","a","i","l",":"," ","A","s","h","a",".","R","a","o","@","E","x","a","m","p","l","e",".","c","o","m","\n","P","h","o","n","e",":"," ","(","9","1",")"," ","1","2","3","4","5","-","6","7","8","9","0">>
BodyHello == <<"h","e","l","l","o">>
Bodies == {BodyAsha, BodyRavi, BodyAshaNewPhone, BodyHello}

\* extract_simple_cv_data on the stripped body of each of them (webhook():
\* resume_text = message_data['body'].strip()), computed once
ParsedBodies == [b \in Bodies |-> extract_simple_cv_data(Strip(b))]

Sender1 == <<"w","h","a","t","s","a","p","p",":","+","1","4","1","5","5","5","5","0","0","0","1">>
Sender2 == <<"w","h","a","t","s","a","p","p",":","+","1","4","1","5","5","5","5","0","0","0","2">>
Senders == {Sender1, Sender2}

\* The form Twilio posts: From, Body, NumMedia, MediaUrl0, MediaContentType0
TextForms ==
    {[From |-> s, Body |-> b, NumMedia |-> 0, MediaUrl0 |-> <<>>,
      MediaContentType0 |-> <<>>] : s \in {Sender1}, b \in Bodies \cup {<<" ">>}}

\* The attachments Twilio hosts: the text in the file, or a file that no
\* library can read
DocAsha == <<"A","s","h","a"," ","R","a","o","\n","a","s","h","a",".","r","a","o","@","e","x","a","m","p","l","e",".","c","o","m","\n","P","u","n","e",","," ","I","n","d","i","a">>
DocNoContact == <<"C","u","r","r","i","c","u","l","u","m"," ","V","i","t","a","e","\n","S","k","i","l","l","s","\n","P","y","t","h","o","n">>
DocBadDate == <<"A","s","h","a"," ","R","a","o","\n","E","x","p","e","r","i","e","n","c","e","\n","A","c","m","e"," ","L","t","d"," ","I","n","t","e","r","n"," ","0","7","/","1","3","/","2","0","2","5","-","0","6","/","0","5","/","2","0","2","5">>
DocSkills == <<"A","s","h","a"," ","R","a","o","\n","S","k","i","l","l","s","\n","P","y","t","h","o","n",","," ","p","y","t","h","o","n",","," ","S","Q","L">>
Docs == {DocAsha, DocNoContact, DocBadDate, DocSkills}
Readable(t) == [readable |-> TRUE, text |-> t]
Unreadable == [readable |-> FALSE, text |-> <<>>]
Url1 == <<"u", "1">>
Url2 == <<"u", "2">>
Url3 == <<"u", "3">>
Url4 == <<"u", "4">>
Url5 == <<"u", "5">>
Url6 == <<"u", "6">>
\* A document whose pages hold no text
DocBlank == <<" ", "\n">>
Hosted == [u \in {Url1, Url2, Url3, Url4, Url5, Url6} |->
            CASE u = Url1 -> Readable(DocAsha) [] u = Url2 -> Readable(DocNoContact)
              [] u = Url3 -> Readable(DocBadDate) [] u = Url4 -> Unreadable
              [] u = Url5 -> Readable(DocSkills) [] u = Url6 -> Readable(DocBlank)]
TypePdf == <<"a","p","p","l","i","c","a","t","i","o","n","/","p","d","f">>
TypeDocx == <<"a","p","p","l","i","c","a","t","i","o","n","/","v","n","d",".","o","p","e","n","x","m","l","f","o","r","m","a","t","s","-","o","f","f","i","c","e","d","o","c","u","m","e","n","t",".","w","o","r","d","p","r","o","c","e","s","s","i","n","g","m","l",".","d","o","c","u","m","e","n","t">>
TypeDoc == <<"a","p","p","l","i","c","a","t","i","o","n","/","m","s","w","o","r","d">>
TypeTxt == <<"t","e","x","t","/","p","l","a","i","n">>
MediaForms ==
    {[From |-> Sender2, Body |-> <<>>, NumMedia |-> 1, MediaUrl0 |-> m[1],
      MediaContentType0 |-> m[2]] :
        m \in {<<Url1, TypePdf>>, <<Url2, TypeDocx>>, <<Url3, TypePdf>>,
               <<Url4, TypePdf>>, <<Url1, TypeTxt>>, <<Url5, TypeDoc>>}}
Forms == TextForms \cup MediaForms
\* The attachments, with a document without text among them
BlankForm == [From |-> Sender2, Body |-> <<>>, NumMedia |-> 1, MediaUrl0 |-> Url6,
              MediaContentType0 |-> TypePdf]
AttachmentForms == MediaForms \cup {BlankForm}

\* datetime.now().isoformat() at clock reading n
DigitOf(n) == CHOOSE c \in DigitChars : c = <<"0","1","2","3","4","5","6","7","8","9">>[n + 1]
isoformat(n) == <<"T", DigitOf(n)>>

\* parse_incoming_message(form_data): a message without media has
\* media_url None, which is <<>> here (the webhook only tests its truth)
parse_incoming_message(form_data, now) ==
    [from |-> form_data.From, body |-> form_data.Body,
     num_media |-> form_data.NumMedia,
     media_url |-> IF form_data.NumMedia > 0 THEN form_data.MediaUrl0 ELSE <<>>,
     media_content_type |-> IF form_data.NumMedia > 0 THEN form_data.MediaContentType0 ELSE <<>>,
     timestamp |-> isoformat(now)]

(***************************************************************************)
(* Names and emails (extract.py)                                           *)
(***************************************************************************)
\* email.split('@')[0]
LocalPart(email) == Split(email, "@")[1]

MinNamePart == 2
MinMatchLen == 3

\* re.findall(r'[A-Z]?[a-z]+|[A-Z]+(?=[A-Z][a-z]|\b)', s) for a string of
\* ASCII characters without digits and '_': every run of lower-case letters
\* with the capital right before it, and every run of capitals, less its
\* last one when a lower-case letter follows
CamelTokens(s) ==
    LET n == Len(s)
        lowAt(i) == i >= 1 /\ i <= n /\ IsLower(s[i])
        upAt(i) == i >= 1 /\ i <= n /\ IsUpper(s[i])
        alphaAt(i) == i >= 1 /\ i <= n /\ IsAlpha(s[i])
        \* the last position of the run of lower-case letters that holds i
        lowEnd(i) == SetMin({j \in i..n : ~lowAt(j + 1)})
        upEnd(i) == SetMin({j \in i..n : ~upAt(j + 1)})
        \* a token starts at i and ends at e
        lowTok == {<<IF upAt(i - 1) THEN i - 1 ELSE i, lowEnd(i)>> :
                    i \in {j \in 1..n : lowAt(j) /\ ~lowAt(j - 1)}}
        upTok == {<<i, IF lowAt(upEnd(i) + 1) THEN upEnd(i) - 1 ELSE upEnd(i)>> :
                    i \in {j \in 1..n : upAt(j) /\ ~upAt(j - 1)}}
        toks == lowTok \cup {t \in upTok : t[1] <= t[2]}
        starts == {t[1] : t \in toks}
        tok(k) == CHOOSE t \in toks : t[1] = Nth(starts, k)
    IN  [k \in 1..Cardinality(starts) |-> SubSeq(s, tok(k)[1], tok(k)[2])]


\* The local part without the digits, '_' and '-', and its tokens
clean_part(local_part) ==
    SelectSeq(local_part, LAMBDA c : ~IsDigit(c) /\ c # "_" /\ c # "-")
name_tokens(part) ==
    IF Contains(part, <<".">>) THEN Split(part, ".") ELSE CamelTokens(part)
TitleAll(parts) == [k \in 1..Len(parts) |-> Title(parts[k])]
extract_name_from_email(email) ==
    IF email = <<>> \/ email = NA \/ ~Contains(email, <<"@">>) THEN <<>>
    ELSE Join(TitleAll(SelectSeq(name_tokens(clean_part(LocalPart(email))),
                                 LAMBDA p : Len(p) >= MinNamePart)), <<" ">>)

\* The local part with its digits and separators turned into spaces
clean_email(email_local) ==
    Strip([i \in 1..Len(email_local) |->
             IF IsDigit(email_local[i]) \/ email_local[i] \in {"_", "-", "."}
             THEN " " ELSE email_local[i]])
\* A part of the name is in some part of the email, or holds one
matched(name_part, email_parts) ==
    \E k \in 1..Len(email_parts) :
        /\ Len(name_part) >= MinMatchLen
        /\ Len(email_parts[k]) >= MinMatchLen
        /\ \/ Contains(email_parts[k], name_part)
           \/ Contains(name_part, email_parts[k])
\* int((matches / len(name_parts)) * 100)
name_confidence(name_parts, email_parts) ==
    IF Len(name_parts) = 0 THEN 0
    ELSE (Cardinality({k \in 1..Len(name_parts) : matched(name_parts[k], email_parts)})
            * 100) \div Len(name_parts)
\* name_verdict with the threshold of a plausible name at 60 instead of 50
name_verdict_strict(extracted_name, confidence, email_name) ==
    IF confidence >= 60
    THEN [is_valid |-> TRUE, confidence |-> confidence,
          suggested_name |-> extracted_name]
    ELSE IF email_name # <<>> /\ Lower(email_name) # Lower(extracted_name)
    THEN [is_valid |-> FALSE, confidence |-> confidence,
          suggested_name |-> email_name]
    ELSE [is_valid |-> TRUE, confidence |-> confidence,
          suggested_name |-> extracted_name]
\* The verdict for a name that is there, given its confidence and the name
\* the email suggests
name_verdict(extracted_name, confidence, email_name) ==
    IF confidence >= 50
    THEN [is_valid |-> TRUE, confidence |-> confidence,
          suggested_name |-> extracted_name]
    ELSE IF email_name # <<>> /\ Lower(email_name) # Lower(extracted_name)
    THEN [is_valid |-> FALSE, confidence |-> confidence,
          suggested_name |-> email_name]
    ELSE [is_valid |-> TRUE, confidence |-> confidence,
          suggested_name |-> extracted_name]
\* The verdict when there is an email
verdict_with_email(extracted_name, email, email_name) ==
    IF extracted_name = <<>> \/ extracted_name = NA
    THEN (IF email_name # <<>>
          THEN [is_valid |-> FALSE, confidence |-> 70, suggested_name |-> email_name]
          ELSE [is_valid |-> FALSE, confidence |-> 0, suggested_name |-> NA])
    ELSE name_verdict(extracted_name,
                      name_confidence(Words(Lower(extracted_name)),
                                      Words(clean_email(Lower(LocalPart(email))))),
                      email_name)

\* (is_valid, confidence, suggested_name) of validate_name_with_email; the
\* fourth component, the reason, is only logged
validate_name_with_email(extracted_name, email) ==
    IF email = <<>> \/ email = NA \/ ~Contains(email, <<"@">>)
    THEN [is_valid |-> TRUE, confidence |-> 50, suggested_name |-> extracted_name]
    ELSE verdict_with_email(extracted_name, email, extract_name_from_email(email))

(***************************************************************************)
(* The experience normalizer (extract.py)                                  *)
(***************************************************************************)
\* The characters outside ASCII that the patterns name: the en dash and the
\* bullet, each one character of a str
EnDash == "en-dash"
Bullet == "bullet"

\* s[i..j] exists and all its characters satisfy P
AllAt(s, i, j, P(_)) == i >= 1 /\ j <= Len(s) /\ \A m \in i..j : P(s[m])
CharAt(s, i, c) == i >= 1 /\ i <= Len(s) /\ s[i] = c
IsDash(c) == c = "-" \/ c = EnDash

\* ,\s*[A-Z][a-z]+(?:\s*,\s*[A-Z][a-z]+)?\s*(?=[-<en dash>]) at i
LocationEnd(s, i) ==
    IF ~CharAt(s, i, ",") THEN 0
    ELSE LET a == RunEnd(s, i + 1, IsSpace) + 1           \* the capital
             b == RunEnd(s, a + 1, IsLower)               \* end of the word
             c == RunEnd(s, b + 1, IsSpace) + 1           \* the second comma
             d == RunEnd(s, c + 1, IsSpace) + 1           \* the second capital
             e == RunEnd(s, d + 1, IsLower)
             word1 == AllAt(s, a, a, IsUpper) /\ b > a
             word2 == word1 /\ CharAt(s, c, ",") /\ AllAt(s, d, d, IsUpper) /\ e > d
             stop == IF word2 THEN RunEnd(s, e + 1, IsSpace)
                     ELSE RunEnd(s, b + 1, IsSpace)
         IN  IF word1 /\ stop + 1 <= Len(s) /\ IsDash(s[stop + 1]) THEN stop ELSE 0

MonthChars == [m \in 1..12 |->
    <<<<"J","a","n">>, <<"F","e","b">>, <<"M","a","r">>, <<"A","p","r">>,
      <<"M","a","y">>, <<"J","u","n">>, <<"J","u","l">>, <<"A","u","g">>,
      <<"S","e","p">>, <<"O","c","t">>, <<"N","o","v">>, <<"D","e","c">>>>[m]]

\* int() of a string of digits
RECURSIVE ToInt(_)
ToInt(ds) ==
    IF ds = <<>> THEN 0
    ELSE 10 * ToInt(SubSeq(ds, 1, Len(ds) - 1))
            + (CHOOSE d \in 0..9 : DigitOf(d) = ds[Len(ds)])

\* (\d{2})/(\d{2})/(\d{4}) at i: dd/dd/dddd
IsNumericDate(s, i) ==
    /\ AllAt(s, i, i + 1, IsDigit) /\ CharAt(s, i + 2, "/")
    /\ AllAt(s, i + 3, i + 4, IsDigit) /\ CharAt(s, i + 5, "/")
    /\ AllAt(s, i + 6, i + 9, IsDigit)
NumericDateLen == 10
\* where the second date of (date)\s*-\s*(date) starts, given the first at i
SecondDateAt(s, i) ==
    LET dash == RunEnd(s, i + NumericDateLen, IsSpace) + 1
    IN  IF CharAt(s, dash, "-") THEN RunEnd(s, dash + 1, IsSpace) + 1 ELSE 0
NumericRangeEnd(s, i) ==
    IF IsNumericDate(s, i) /\ SecondDateAt(s, i) # 0
        /\ IsNumericDate(s, SecondDateAt(s, i))
    THEN SecondDateAt(s, i) + NumericDateLen - 1 ELSE 0
\* The list index int(m.group(k)) - 1 of the replacement: the second
\* two-digit number of a date, as an index into the twelve months
MonthIndex(s, i) == ToInt(SubSeq(s, i + 3, i + 4)) - 1
\* A Python list index is in range from -12 to 11
IndexInRange(k) == k >= -12 /\ k <= 11
MonthAt(k) == MonthChars[IF k < 0 THEN k + 13 ELSE k + 1]
\* The replacement of one match; the mark IndexError stands for the lambda
\* raising it
IndexError == "IndexError"
NumericRangeRepl(s, i, e) ==
    LET j == SecondDateAt(s, i)
    IN  IF ~IndexInRange(MonthIndex(s, i)) \/ ~IndexInRange(MonthIndex(s, j))
        THEN <<IndexError>>
        ELSE
        <<"(">> \o MonthAt(MonthIndex(s, i)) \o <<" ">> \o SubSeq(s, i + 6, i + 9)
          \o <<" ", "-", " ">> \o MonthAt(MonthIndex(s, j)) \o <<" ">>
          \o SubSeq(s, j + 6, j + 9) \o <<")">>
\* (Jan|...|Dec) at i, in any letter case
IsMonthAt(s, i) ==
    i >= 1 /\ i + 2 <= Len(s)
    /\ \E m \in 1..12 : Lower(SubSeq(s, i, i + 2)) = Lower(MonthChars[m])
\* (Jan|..)[a-z]*\s*-\s*(Jan|..)[a-z]*\s*(\d{4}) at i: the second month's
\* position, and the year's
SecondMonthAt(s, i) ==
    LET dash == RunEnd(s, RunEnd(s, i + 3, IsAlpha) + 1, IsSpace) + 1
    IN  IF CharAt(s, dash, "-") THEN RunEnd(s, dash + 1, IsSpace) + 1 ELSE 0
YearAfterMonth(s, j) == RunEnd(s, RunEnd(s, j + 3, IsAlpha) + 1, IsSpace) + 1
MonthRangeEnd(s, i) ==
    IF IsMonthAt(s, i) /\ SecondMonthAt(s, i) # 0 /\ IsMonthAt(s, SecondMonthAt(s, i))
        /\ AllAt(s, YearAfterMonth(s, SecondMonthAt(s, i)),
                 YearAfterMonth(s, SecondMonthAt(s, i)) + 3, IsDigit)
    THEN YearAfterMonth(s, SecondMonthAt(s, i)) + 3 ELSE 0
MonthRangeRepl(s, i, e) ==
    LET j == SecondMonthAt(s, i)
        year == SubSeq(s, e - 3, e)
    IN  <<"(">> \o SubSeq(s, i, i + 2) \o <<" ">> \o year \o <<" ", "-", " ">>
          \o SubSeq(s, j, j + 2) \o <<" ">> \o year \o <<")">>

Present == <<"P","r","e","s","e","n","t">>
\* (?<!\()(\d{4}\s*-\s*(?:\d{4}|Present))(?!\)) at i
YearRangeEnd(s, i) ==
    IF ~AllAt(s, i, i + 3, IsDigit) \/ CharAt(s, i - 1, "(") THEN 0
    ELSE LET dash == RunEnd(s, i + 4, IsSpace) + 1
             to == RunEnd(s, dash + 1, IsSpace) + 1
             e == IF AllAt(s, to, to + 3, IsDigit) THEN to + 3
                  ELSE IF to + 6 <= Len(s) /\ SubSeq(s, to, to + 6) = Present
                  THEN to + 6 ELSE 0
         IN  IF CharAt(s, dash, "-") /\ e # 0 /\ ~CharAt(s, e + 1, ")") THEN e ELSE 0
YearRangeRepl(s, i, e) == <<"(">> \o SubSeq(s, i, e) \o <<")">>

\* \s*[<en dash>|]\s* at i
SymbolEnd(s, i) ==
    LET sym == RunEnd(s, i, IsSpace) + 1
    IN  IF CharAt(s, sym, EnDash) \/ CharAt(s, sym, "|")
        THEN RunEnd(s, sym + 1, IsSpace) ELSE 0

\* \s+ at i
SpacesEnd(s, i) == IF AllAt(s, i, i, IsSpace) THEN RunEnd(s, i, IsSpace) ELSE 0

\* The patterns of the normalizer, each with its match and its replacement
PatternEnd(pattern, s, i) ==
    CASE pattern = "location" -> LocationEnd(s, i)
      [] pattern = "numeric range" -> NumericRangeEnd(s, i)
      [] pattern = "month range" -> MonthRangeEnd(s, i)
      [] pattern = "year range" -> YearRangeEnd(s, i)
      [] pattern = "symbol" -> SymbolEnd(s, i)
      [] pattern = "spaces" -> SpacesEnd(s, i)
PatternRepl(pattern, s, i, e) ==
    CASE pattern = "location" -> <<>>
      [] pattern = "numeric range" -> NumericRangeRepl(s, i, e)
      [] pattern = "month range" -> MonthRangeRepl(s, i, e)
      [] pattern = "year range" -> YearRangeRepl(s, i, e)
      [] pattern = "symbol" -> <<" ", "-", " ">>
      [] pattern = "spaces" -> <<" ">>

\* re.sub(pattern, repl, s): the leftmost matches that do not overlap, each
\* replaced.  ends[i] is the last position of the match that starts at i, or
\* 0 when there is none (no pattern here matches the empty string)
MatchEnds(pattern, s) == [i \in 1..Len(s) |-> PatternEnd(pattern, s, i)]
RECURSIVE ReSubFrom(_, _, _, _)
ReSubFrom(pattern, s, ends, from) ==
    LET cands == {i \in from..Len(s) : ends[i] # 0}
        i == SetMin(cands)
    IN  IF cands = {} THEN SubSeq(s, from, Len(s))
        ELSE SubSeq(s, from, i - 1) \o PatternRepl(pattern, s, i, ends[i])
                \o ReSubFrom(pattern, s, ends, ends[i] + 1)
ReSub(pattern, s) == ReSubFrom(pattern, s, MatchEnds(pattern, s), 1)
\* The substitutions of a list of patterns, one after the other
RECURSIVE ReSubAll(_, _)
ReSubAll(patterns, s) ==
    IF patterns = <<>> THEN s
    ELSE ReSubAll(Tail(patterns), ReSub(Head(patterns), s))

\* re.split(r'[|,]', s)
SplitAny(s, seps) ==
    LET at == {i \in 1..Len(s) : s[i] \in seps}
        n == Cardinality(at)
        first(k) == IF k = 1 THEN 1 ELSE Nth(at, k - 1) + 1
        last(k) == IF k = n + 1 THEN Len(s) ELSE Nth(at, k) - 1
    IN  [k \in 1..(n + 1) |-> SubSeq(s, first(k), last(k))]

\* The loop body for one position of the experience string; the mark
\* IndexError, which no later pattern matches, stays in the result when the
\* replacement of a numeric range raised
position_patterns ==
    <<"location", "numeric range", "month range", "year range", "symbol", "spaces">>
normalize_position(pos) == Strip(ReSubAll(position_patterns, pos))
Raises(normalized) ==
    \E k \in 1..Len(normalized) :
        \E i \in 1..Len(normalized[k]) : normalized[k][i] = IndexError

\* experience.split on | and , with the empty positions dropped
StrippedAll(raw) == [k \in 1..Len(raw) |-> Strip(raw[k])]
experience_positions(experience) ==
    SelectSeq(StrippedAll(SplitAny(experience, {"|", ","})), LAMBDA p : p # <<>>)
normalized_positions(positions) ==
    [k \in 1..Len(positions) |-> normalize_position(positions[k])]
joined_positions(normalized) ==
    IF Raises(normalized) THEN [raises |-> TRUE, value |-> <<>>]
    ELSE [raises |-> FALSE, value |-> Join(normalized, <<",", " ">>)]

\* _normalize_experience_format: [raises, value]; it raises IndexError when
\* a numeric date names a month beyond the twelfth
_normalize_experience_format(experience) ==
    IF experience = NA \/ experience = <<>>
    THEN [raises |-> FALSE, value |-> experience]
    ELSE joined_positions(normalized_positions(experience_positions(experience)))

(***************************************************************************)
(* The normalizer of the remote answer (extract.py)                        *)
(***************************************************************************)
\* The values of the JSON object that json.loads returns: a str, a number
\* or null
JStr(s) == [type |-> "str", str |-> s]
JNum(n) == [type |-> "num", num |-> n]
JNull == [type |-> "null"]
IsStr(v) == v.type = "str"
\* bool(v)
Truthy(v) ==
    CASE v.type = "str" -> v.str # <<>>
      [] v.type = "num" -> v.num # 0
      [] OTHER -> FALSE
\* v != 'N/A'
NotNA(v) == ~IsStr(v) \/ v.str # NA

\* str() of a number that is not negative
RECURSIVE Str(_)
Str(n) == IF n < 10 THEN <<DigitOf(n)>> ELSE Str(n \div 10) \o <<DigitOf(n % 10)>>
\* A value as the code after the normalizer sees it: nothing there tells a
\* number from its decimal form
Shown(v) == IF IsStr(v) THEN v.str ELSE Str(v.num)

required_fields == <<"name", "email", "phone", "skills", "experience", "education",
                     "location">>

\* The skills, without the repeated and the one-character ones
RECURSIVE UniqueSkills(_, _)
UniqueSkills(skill_list, seen) ==
    IF skill_list = <<>> THEN <<>>
    ELSE LET skill == Head(skill_list)
             skill_lower == Lower(skill)
         IN  IF skill_lower # <<>> /\ skill_lower \notin seen /\ Len(skill) > 1
             THEN <<skill>> \o UniqueSkills(Tail(skill_list), seen \cup {skill_lower})
             ELSE UniqueSkills(Tail(skill_list), seen)
clean_skills(skills) ==
    LET parts == Split(skills, ",")
    IN  Join(UniqueSkills([k \in 1..Len(parts) |-> Strip(parts[k])], {}), <<",", " ">>)

LowConfidence == 40
MediumConfidence == 60
MinLocationWords == 2


\* The name when there was none: the one the email gives, if any
name_or(extracted_name, email_name) ==
    IF email_name # <<>> THEN email_name ELSE extracted_name
\* The name or the suggestion, by the confidence v of the name
name_by_confidence(extracted_name, v) ==
    IF v.confidence < LowConfidence /\ v.suggested_name # <<>>
       /\ v.suggested_name # NA
    THEN v.suggested_name
    ELSE IF LowConfidence <= v.confidence /\ v.confidence < MediumConfidence
            /\ v.suggested_name # <<>> /\ v.suggested_name # extracted_name
            /\ Len(Words(v.suggested_name)) > Len(Words(extracted_name))
    THEN v.suggested_name
    ELSE extracted_name
\* The name after the check against the email, before title()
checked_name(extracted_name, email) ==
    IF email = NA THEN extracted_name
    ELSE IF extracted_name = NA
    THEN name_or(extracted_name, extract_name_from_email(email))
    ELSE name_by_confidence(extracted_name,
                            validate_name_with_email(extracted_name, email))

\* The location, or the sentinel when it is part of the name, or the name
\* part of it, or when it is a single word without a digit
clean_location(location, name) ==
    LET location_words ==
            Words([i \in 1..Len(location) |-> IF location[i] = "," THEN " " ELSE location[i]])
    IN  IF \/ Contains(Lower(name), Lower(location))
           \/ Contains(Lower(location), Lower(name))
           \/ /\ Len(location_words) < MinLocationWords
              /\ ~\E i \in 1..Len(location) : IsDigit(location[i])
        THEN NA ELSE location


\* The loop over the required fields: a field that is missing or falsy
\* becomes the sentinel
filled(obj) ==
    [k \in {required_fields[i] : i \in 1..7} |->
        IF k \in DOMAIN obj /\ Truthy(obj[k]) THEN obj[k] ELSE JStr(NA)]
titled(name) == IF name # NA THEN Title(name) ELSE NA
\* The fields cleaned, given the name and the experience already cleaned
cleaned(f, name, normalized) ==
    IF \/ ~IsStr(f.name)
       \/ ~IsStr(f.email)
       \/ ~IsStr(f.phone)
       \/ ~IsStr(f.location) /\ name # NA
       \/ ~IsStr(f.skills)
       \/ ~IsStr(f.experience)
       \/ normalized.raises
    THEN [raises |-> TRUE, value |-> None]
    ELSE [raises |-> FALSE,
          value |-> Record(
             name,
             f.email.str,
             IF f.phone.str # NA THEN DigitsAndPlus(f.phone.str) ELSE NA,
             IF f.skills.str # NA THEN clean_skills(f.skills.str) ELSE NA,
             normalized.value,
             Shown(f.education),
             IF NotNA(f.location) /\ name # NA
             THEN clean_location(f.location.str, name)
             ELSE Shown(f.location))]
clean_fields(f) ==
    cleaned(f,
            IF IsStr(f.name) /\ IsStr(f.email)
            THEN titled(checked_name(f.name.str, f.email.str)) ELSE NA,
            IF IsStr(f.experience)
            THEN _normalize_experience_format(f.experience.str)
            ELSE [raises |-> TRUE, value |-> <<>>])

\* _validate_and_clean_data(cv_data) for what json.loads returned:
\* [raises, value].  Anything but an object raises TypeError at the first
\* field; a number where a str method is called raises too
_validate_and_clean_data(loaded) ==
    IF loaded.kind # "object" THEN [raises |-> TRUE, value |-> None]
    ELSE clean_fields(filled(loaded.fields))

(***************************************************************************)
(* The regex fallback (extract.py)                                         *)
(***************************************************************************)
\* \w, and \b at the gap before position i
IsWordChar(c) == IsAlpha(c) \/ IsDigit(c) \/ c = "_"
WordAt(s, i) == i >= 1 /\ i <= Len(s) /\ IsWordChar(s[i])
Boundary(s, i) == WordAt(s, i - 1) # WordAt(s, i)

IsTldChar(c) == IsAlpha(c) \/ c = "|"
MinTld == 2
\* The match of \b[A-Za-z0-9._%+-]+@[A-Za-z0-9.-]+\.[A-Z|a-z]{2,}\b that
\* starts at i, as the position of its last character, or 0: the local part
\* runs up to the '@'; the domain gives back characters down to its last dot
\* that a top-level part can follow, and that part gives back characters
\* down to a word boundary
EmailEndB(s, i) ==
    LET j == RunEnd(s, i, IsEmailLocalChar)
        k == RunEnd(s, j + 2, IsEmailDomainChar)
        tlds == {<<d, e>> \in ((j + 3)..k) \X ((j + 5)..Len(s)) :
                    /\ s[d] = "."
                    /\ e >= d + MinTld
                    /\ AllAt(s, d + 1, e, IsTldChar)
                    /\ Boundary(s, e + 1)}
        dot == SetMax({t[1] : t \in tlds})
    IN  IF Boundary(s, i) /\ j >= i /\ CharAt(s, j + 1, "@") /\ tlds # {}
        THEN SetMax({t[2] : t \in {u \in tlds : u[1] = dot}})
        ELSE 0
EmailSearchB(s) == FirstMatch(s, [i \in 1..Len(s) |-> EmailEndB(s, i)])

\* A pattern that is a sequence of character classes, each repeated between
\* min and max times and taking as many as the rest of the pattern allows
InClass(class, c) ==
    CASE class = "plus" -> c = "+"
      [] class = "digit" -> IsDigit(c)
      [] class = "sep" -> c \in {"-", "."} \/ IsSpace(c)
      [] class = "lparen" -> c = "("
      [] class = "rparen" -> c = ")"
Tok(class, min, max) == [class |-> class, min |-> min, max |-> max]
\* The position after the match of toks[k..] at pos, or 0 for no match
RECURSIVE MatchToks(_, _, _, _)
MatchToks(toks, s, k, pos) ==
    IF k > Len(toks) THEN pos
    ELSE LET t == toks[k]
             fits == {c \in t.min..t.max :
                        /\ pos + c - 1 <= Len(s)
                        /\ \A m \in pos..(pos + c - 1) : InClass(t.class, s[m])
                        /\ MatchToks(toks, s, k + 1, pos + c) # 0}
         IN  IF fits = {} THEN 0 ELSE MatchToks(toks, s, k + 1, pos + SetMax(fits))

\* (?:\+?\d{1,3}[-.\s]?)?\(?\d{3}\)?[-.\s]?\d{3,4}[-.\s]?\d{4}
PhonePrefix == <<Tok("plus", 0, 1), Tok("digit", 1, 3), Tok("sep", 0, 1)>>
PhoneNumber == <<Tok("lparen", 0, 1), Tok("digit", 3, 3), Tok("rparen", 0, 1),
                 Tok("sep", 0, 1), Tok("digit", 3, 4), Tok("sep", 0, 1),
                 Tok("digit", 4, 4)>>
\* The last position of the match at i, or 0: with the country prefix if
\* that matches, else without
LastOf(after) == IF after = 0 THEN 0 ELSE after - 1
OrElse(first, second) == IF first # 0 THEN first ELSE second
PhoneEnd(s, i) ==
    LastOf(OrElse(MatchToks(PhonePrefix \o PhoneNumber, s, 1, i),
                  MatchToks(PhoneNumber, s, 1, i)))
PhoneSearch(s) == FirstMatch(s, [i \in 1..Len(s) |-> PhoneEnd(s, i)])

\* str.istitle() and str.isupper()
IsTitle(s) ==
    /\ \E i \in 1..Len(s) : IsAlpha(s[i])
    /\ \A i \in 1..Len(s) :
        /\ IsUpper(s[i]) => ~(i > 1 /\ IsAlpha(s[i - 1]))
        /\ IsLower(s[i]) => (i > 1 /\ IsAlpha(s[i - 1]))
IsUpperStr(s) ==
    /\ \E i \in 1..Len(s) : IsAlpha(s[i])
    /\ \A i \in 1..Len(s) : ~IsLower(s[i])

HeadingWords == {<<"R","E","S","U","M","E">>, <<"C","V">>, <<"C","U","R","R","I","C","U","L","U","M">>, <<"V","I","T","A","E">>, <<"P","R","O","F","I","L","E">>}
NameScanLines == 15
MinFallbackName == 5
MaxFallbackName == 50
\* The test of the name scan on a stripped line
IsNameLine(line) ==
    /\ ~Contains(line, <<"@">>)
    /\ ~\E i \in 1..Len(line) : IsDigit(line[i])
    /\ Len(line) >= MinFallbackName /\ Len(line) <= MaxFallbackName
    /\ ~\E word \in HeadingWords : Contains(Upper(line), Upper(word))
    /\ Len(Words(line)) >= MinNameWords /\ Len(Words(line)) <= MaxNameWords
    /\ (IsTitle(line) \/ IsUpperStr(line))
\* The name of the first such line among the first fifteen, or the sentinel
scanned_name(lines) ==
    LET hits == {i \in 1..Len(lines) : i <= NameScanLines /\ IsNameLine(Strip(lines[i]))}
    IN  IF hits = {} THEN NA ELSE Title(Strip(lines[SetMin(hits)]))
\* name_if_low without the replacement: the name stays whatever the verdict
name_if_low_never(name, v) == name
\* The name after the check against the email: a name of low confidence
\* gives way to the one the email suggests
name_if_low(name, v) ==
    IF v.confidence < LowConfidence /\ v.suggested_name # <<>>
       /\ v.suggested_name # NA
    THEN v.suggested_name ELSE name
fallback_name(name, email) ==
    IF email = NA THEN name
    ELSE IF name = NA THEN name_or(name, extract_name_from_email(email))
    ELSE name_if_low(name, validate_name_with_email(name, email))

\* [A-Z][a-z]+ at i: the position of its last letter, or 0
CapWordEnd(s, i) ==
    IF AllAt(s, i, i, IsUpper) /\ AllAt(s, i + 1, i + 1, IsLower)
    THEN RunEnd(s, i + 1, IsLower) ELSE 0
\* [A-Z][a-z]+(?:\s[A-Z][a-z]+)? at i, as the set of the ends it can have,
\* the longer one tried first
PlaceEnds(s, i) ==
    LET e1 == CapWordEnd(s, i)
        e2 == IF e1 # 0 /\ AllAt(s, e1 + 1, e1 + 1, IsSpace)
              THEN CapWordEnd(s, e1 + 2) ELSE 0
    IN  {e \in {e1, e2} : e # 0}
\* \b(place),\s*(place)\b at i: <<end of the first place, start and end of
\* the second>>, or <<>>
PairOf(e1, b2, e2) == IF e2 = 0 THEN <<>> ELSE <<e1, b2, e2>>
SecondPlace(s, e1, b2) ==
    PairOf(e1, b2, MaxOr0({e \in PlaceEnds(s, b2) : Boundary(s, e + 1)}))
FirstPlace(s, e1) ==
    IF e1 = 0 THEN <<>> ELSE SecondPlace(s, e1, RunEnd(s, e1 + 2, IsSpace) + 1)
PlacePairAt(s, i) ==
    IF Boundary(s, i)
    THEN FirstPlace(s, MaxOr0({e \in PlaceEnds(s, i) : CharAt(s, e + 1, ",")}))
    ELSE <<>>
\* potential_loc of the leftmost match in the line, or <<>>
PairText(line, pairs, i) ==
    IF i = 0 THEN <<>>
    ELSE SubSeq(line, i, pairs[i][1]) \o <<",", " ">>
            \o SubSeq(line, pairs[i][2], pairs[i][3])
FirstPair(line, pairs) == PairText(line, pairs, FirstNot(pairs, <<>>))
PlacePair(line) == FirstPair(line, [i \in 1..Len(line) |-> PlacePairAt(line, i)])

location_indicators == {<<"l","o","c","a","t","i","o","n",":">>, <<"a","d","d","r","e","s","s",":">>, <<"b","a","s","e","d"," ","i","n">>, <<"c","u","r","r","e","n","t"," ","l","o","c","a","t","i","o","n">>}
LocationScanLines == 30
PlacePairLines == 20
MaxLocationLine == 100
\* What line i of the location scan sets the location to, or <<>> when the
\* scan goes on to the next line
potential_location(lines, i) == Strip(lines[i + 1])
AfterIndicator(lines, i) ==
    IF /\ \E indicator \in location_indicators : Contains(Lower(lines[i]), indicator)
       /\ i + 1 <= Len(lines)
       /\ Contains(potential_location(lines, i), <<",">>)
       /\ Len(potential_location(lines, i)) < MaxLocationLine
    THEN potential_location(lines, i) ELSE <<>>
PlaceIn(line, i, name, potential_loc) ==
    IF /\ potential_loc # <<>>
       /\ ~Contains(line, <<"@">>)
       /\ ~Contains(Lower(line), <<"h","t","t","p">>)
       /\ i <= PlacePairLines
       /\ (name = NA \/ ~Contains(Lower(name), Lower(potential_loc)))
    THEN potential_loc ELSE <<>>
FirstOr(first, second) == IF first # <<>> THEN first ELSE second
LocationAt(lines, i, name) ==
    FirstOr(AfterIndicator(lines, i), PlaceIn(lines[i], i, name, PlacePair(lines[i])))
FirstFound(found) ==
    IF FirstNot(found, <<>>) = 0 THEN NA ELSE found[FirstNot(found, <<>>)]
scanned_location(lines, name) ==
    FirstFound([i \in 1..Len(lines) |->
                  IF i <= LocationScanLines THEN LocationAt(lines, i, name) ELSE <<>>])

\* The printable ASCII characters in the order of their codes, from 32 (the
\* grave accent, which a TLA+ string cannot hold, by name)
Printable ==
    <<" ", "!", "\"", "#", "$", "%", "&", "'", "(", ")", "*", "+", ",", "-", ".", "/",
      "0", "1", "2", "3", "4", "5", "6", "7", "8", "9", ":", ";", "<", "=", ">", "?",
      "@", "A", "B", "C", "D", "E", "F", "G", "H", "I", "J", "K", "L", "M", "N", "O",
      "P", "Q", "R", "S", "T", "U", "V", "W", "X", "Y", "Z", "[", "\\", "]", "^", "_",
      "backtick", "a", "b", "c", "d", "e", "f", "g", "h", "i", "j", "k", "l", "m", "n", "o",
      "p", "q", "r", "s", "t", "u", "v", "w", "x", "y", "z", "{", "|", "}", "~">>
\* ord(c)
Ord(c) ==
    CASE c = "\t" -> 9 [] c = "\n" -> 10 [] c = "\r" -> 13
      [] c = EnDash -> 8211 [] c = Bullet -> 8226
      [] OTHER -> 31 + CHOOSE i \in 1..Len(Printable) : Printable[i] = c
\* a < b for two str
StrLess(a, b) ==
    \E i \in 1..(Len(b)) :
        /\ i <= Len(a) + 1
        /\ SubSeq(a, 1, i - 1) = SubSeq(b, 1, i - 1)
        /\ (i = Len(a) + 1 \/ Ord(a[i]) < Ord(b[i]))

\* The orders sorted(skills_set, key=str.lower) can give: skills that differ
\* in letter case only come in the order of the set's iteration, which the
\* hash seed of the process decides
RECURSIVE OrdersFrom(_, _, _)
OrdersFrom(skills_set, keys, k) ==
    IF k > Cardinality(keys) THEN {<<>>}
    ELSE LET key == CHOOSE x \in keys :
                        Cardinality({y \in keys : StrLess(y, x)}) = k - 1
             group == {x \in skills_set : Lower(x) = key}
             perms == {p \in [1..Cardinality(group) -> group] :
                            \A i, j \in 1..Cardinality(group) : i # j => p[i] # p[j]}
         IN  {p \o rest : p \in perms, rest \in OrdersFrom(skills_set, keys, k + 1)}
SortedSkills(skills_set) == OrdersFrom(skills_set, {Lower(x) : x \in skills_set}, 1)

tech_keywords ==
    {<<"p","y","t","h","o","n">>, <<"j","a","v","a">>, <<"j","a","v","a","s","c","r","i","p","t">>,
     <<"t","y","p","e","s","c","r","i","p","t">>, <<"r","e","a","c","t">>,
     <<"a","n","g","u","l","a","r">>, <<"v","u","e">>, <<"n","o","d","e">>,
     <<"e","x","p","r","e","s","s">>, <<"d","j","a","n","g","o">>, <<"f","l","a","s","k">>,
     <<"s","p","r","i","n","g">>, <<"a","w","s">>, <<"a","z","u","r","e">>, <<"g","c","p">>,
     <<"d","o","c","k","e","r">>, <<"k","u","b","e","r","n","e","t","e","s">>,
     <<"j","e","n","k","i","n","s">>, <<"g","i","t">>, <<"m","o","n","g","o","d","b">>,
     <<"m","y","s","q","l">>, <<"p","o","s","t","g","r","e","s","q","l">>, <<"r","e","d","i","s">>,
     <<"e","l","a","s","t","i","c","s","e","a","r","c","h">>, <<"h","t","m","l">>, <<"c","s","s">>,
     <<"s","a","s","s">>, <<"b","o","o","t","s","t","r","a","p">>,
     <<"t","a","i","l","w","i","n","d">>, <<"a","p","i">>, <<"r","e","s","t">>,
     <<"g","r","a","p","h","q","l">>, <<"s","q","l">>, <<"n","o","s","q","l">>,
     <<"a","g","i","l","e">>, <<"s","c","r","u","m">>, <<"j","i","r","a">>,
     <<"t","e","n","s","o","r","f","l","o","w">>, <<"p","y","t","o","r","c","h">>,
     <<"p","a","n","d","a","s">>, <<"n","u","m","p","y">>, <<"s","c","i","k","i","t">>,
     <<"o","p","e","n","c","v">>, <<"n","l","t","k">>, <<"l","i","n","u","x">>,
     <<"u","b","u","n","t","u">>, <<"b","a","s","h">>, <<"s","h","e","l","l">>,
     <<"p","o","w","e","r","s","h","e","l","l">>, <<"c","i","/","c","d">>,
     <<"d","e","v","o","p","s">>}
skills_headers ==
    {<<"s","k","i","l","l","s">>,
     <<"t","e","c","h","n","i","c","a","l"," ","s","k","i","l","l","s">>,
     <<"c","o","r","e"," ","c","o","m","p","e","t","e","n","c","i","e","s">>,
     <<"e","x","p","e","r","t","i","s","e">>, <<"t","e","c","h","n","o","l","o","g","i","e","s">>,
     <<"t","o","o","l","s">>, <<"p","r","o","f","i","c","i","e","n","c","i","e","s">>}
skills_end_headers ==
    {<<"e","x","p","e","r","i","e","n","c","e">>, <<"e","d","u","c","a","t","i","o","n">>,
     <<"p","r","o","j","e","c","t","s">>,
     <<"c","e","r","t","i","f","i","c","a","t","i","o","n","s">>,
     <<"w","o","r","k"," ","h","i","s","t","o","r","y">>,
     <<"e","m","p","l","o","y","m","e","n","t">>}
MaxHeaderLine == 50
MaxSkill == 50
skill_separators == <<",", "|", ";", "/", ":">>
HasAny(s, subs) == \E sub \in subs : Contains(s, sub)
FirstIndex(s, sub) ==
    SetMin({i \in 1..Len(s) : i + Len(sub) - 1 <= Len(s) /\ SubSeq(s, i, i + Len(sub) - 1) = sub})

\* The skills a line of the skills section gives: the pieces between the
\* first separator of the list that the line holds, or the whole line
section_skills(line) ==
    LET cleaned_line == SelectSeq(line, LAMBDA c : c \notin {Bullet, "-", "*"})
        held == {k \in 1..Len(skill_separators) :
                    Contains(cleaned_line, <<skill_separators[k]>>)}
        parts == Split(cleaned_line, skill_separators[SetMin(held)])
    IN  IF held # {}
        THEN {Strip(parts[k]) : k \in {m \in 1..Len(parts) :
                    Len(Strip(parts[m])) > 1 /\ Len(Strip(parts[m])) < MaxSkill}}
        ELSE IF Len(Strip(cleaned_line)) > 2 /\ Len(Strip(cleaned_line)) < MaxSkill
        THEN {Strip(cleaned_line)} ELSE {}
\* The technology keywords a line names, each as the line spells it first
keyword_skills(line) ==
    {SubSeq(line, FirstIndex(Lower(line), keyword),
            FirstIndex(Lower(line), keyword) + Len(keyword) - 1) :
        keyword \in {w \in tech_keywords : Contains(Lower(line), w)}}
\* skills_set after the lines from i on
RECURSIVE SkillsFrom(_, _, _)
SkillsFrom(lines, i, in_skills_section) ==
    IF i > Len(lines) THEN {}
    ELSE LET line == lines[i]
             line_lower == Strip(Lower(line))
             short == Len(line_lower) < MaxHeaderLine
             still == in_skills_section
                        /\ ~(HasAny(line_lower, skills_end_headers) /\ short)
         IN  IF HasAny(line_lower, skills_headers) /\ short
             THEN SkillsFrom(lines, i + 1, TRUE)
             ELSE (IF still /\ Strip(line) # <<>> THEN section_skills(line) ELSE {})
                    \cup keyword_skills(line)
                    \cup SkillsFrom(lines, i + 1, still)

experience_headers_start ==
    {<<"e","x","p","e","r","i","e","n","c","e">>,
     <<"w","o","r","k"," ","e","x","p","e","r","i","e","n","c","e">>,
     <<"p","r","o","f","e","s","s","i","o","n","a","l"," ","e","x","p","e","r","i","e","n","c","e">>,
     <<"e","m","p","l","o","y","m","e","n","t"," ","h","i","s","t","o","r","y">>,
     <<"i","n","t","e","r","n","s","h","i","p">>}
experience_end_headers ==
    {<<"e","d","u","c","a","t","i","o","n">>, <<"p","r","o","j","e","c","t","s">>,
     <<"c","e","r","t","i","f","i","c","a","t","i","o","n","s">>, <<"s","k","i","l","l","s">>}
company_indicators ==
    {<<"i","n","t","e","r","n">>, <<"d","e","v","e","l","o","p","e","r">>,
     <<"e","n","g","i","n","e","e","r">>, <<"m","a","n","a","g","e","r">>,
     <<"a","n","a","l","y","s","t">>, <<"d","e","s","i","g","n","e","r">>, <<"p","v","t">>,
     <<"l","t","d">>, <<"l","i","m","i","t","e","d">>, <<"i","n","c">>, <<"c","o","r","p">>,
     <<"t","e","c","h","n","o","l","o","g","i","e","s">>, <<"s","o","l","u","t","i","o","n","s">>,
     <<"s","y","s","t","e","m","s">>}
MinJobLine == 20
MaxJobLine == 200
MaxPositions == 10

IsSlash(c) == c = "/"
\* \d{1,2}/\d{1,2}/\d{4} at i
ShortDateAt(s, i) ==
    \E a \in 1..2, b \in 1..2 :
        /\ AllAt(s, i, i + a - 1, IsDigit) /\ CharAt(s, i + a, "/")
        /\ AllAt(s, i + a + 1, i + a + b, IsDigit) /\ CharAt(s, i + a + b + 1, "/")
        /\ AllAt(s, i + a + b + 2, i + a + b + 5, IsDigit)
\* The date pattern of the experience scan, searched in the lower-cased line:
\* a year of 19xx or 20xx, a word that starts with a month's three letters,
\* the word present, or a date with slashes
has_date(s) ==
    \E i \in 1..Len(s) :
        \/ /\ Boundary(s, i) /\ i + 3 <= Len(s)
           /\ SubSeq(s, i, i + 1) \in {<<"1", "9">>, <<"2", "0">>}
           /\ AllAt(s, i + 2, i + 3, IsDigit) /\ Boundary(s, i + 4)
        \/ Boundary(s, i) /\ IsMonthAt(s, i) /\ SubSeq(s, i, i + 2) = Lower(SubSeq(s, i, i + 2))
        \/ /\ Boundary(s, i) /\ i + 6 <= Len(s)
           /\ SubSeq(s, i, i + 6) = Lower(Present) /\ Boundary(s, i + 7)
        \/ ShortDateAt(s, i)
IsJobHeader(line) ==
    /\ Len(Strip(line)) > MinJobLine /\ Len(Strip(line)) < MaxJobLine
    /\ has_date(Strip(Lower(line)))
    /\ HasAny(Strip(Lower(line)), company_indicators)
\* experience_headers after the lines from i on, count of them found before
RECURSIVE JobHeadersFrom(_, _, _, _)
JobHeadersFrom(lines, i, in_exp_section, count) ==
    IF i > Len(lines) THEN <<>>
    ELSE LET line_lower == Strip(Lower(lines[i]))
             short == Len(line_lower) < MaxHeaderLine
         IN  IF HasAny(line_lower, experience_headers_start) /\ short
             THEN JobHeadersFrom(lines, i + 1, TRUE, count)
             ELSE IF ~in_exp_section
             THEN JobHeadersFrom(lines, i + 1, FALSE, count)
             ELSE IF HasAny(line_lower, experience_end_headers) /\ short
             THEN <<>>
             ELSE IF ~IsJobHeader(lines[i])
             THEN JobHeadersFrom(lines, i + 1, TRUE, count)
             ELSE IF count + 1 >= MaxPositions
             THEN <<Strip(lines[i])>>
             ELSE <<Strip(lines[i])>> \o JobHeadersFrom(lines, i + 1, TRUE, count + 1)

Fresher == <<"F","r","e","s","h","e","r"," ","(","N","o"," ","w","o","r","k"," ","e","x","p","e","r","i","e","n","c","e",")">>
fresher_words == {<<"f","r","e","s","h","e","r">>, <<"f","r","e","s","h"," ","g","r","a","d","u","a","t","e">>}
\* [raises, value] of the experience field
experience_of(cv_text, experience_headers) ==
    IF experience_headers # <<>>
    THEN _normalize_experience_format(Join(experience_headers, <<",", " ">>))
    ELSE IF HasAny(Lower(cv_text), fresher_words)
    THEN [raises |-> FALSE, value |-> Fresher]
    ELSE [raises |-> FALSE, value |-> NA]
scanned_experience(cv_text, lines) ==
    experience_of(cv_text, JobHeadersFrom(lines, 1, FALSE, 0))

education_keywords ==
    {<<"b",".","t","e","c","h">>, <<"b","t","e","c","h">>, <<"m",".","t","e","c","h">>,
     <<"m","t","e","c","h">>, <<"b","a","c","h","e","l","o","r">>, <<"m","a","s","t","e","r">>,
     <<"m","c","a">>, <<"b","c","a">>, <<"m","b","a">>, <<"p","h","d">>, <<"b",".","e">>,
     <<"b",".","s","c">>, <<"m",".","s","c">>}
MinEducationLine == 15
MaxEducationLine == 200
scanned_education(lines) ==
    LET hits == {i \in 1..Len(lines) :
                    /\ HasAny(Lower(lines[i]), education_keywords)
                    /\ Len(Strip(lines[i])) > MinEducationLine
                    /\ Len(Strip(lines[i])) < MaxEducationLine}
    IN  IF hits = {} THEN NA ELSE Strip(lines[SetMin(hits)])

DigitsOrNA(phone) == IF phone # <<>> THEN DigitsAndPlus(phone) ELSE NA
\* _fallback_extraction(cv_text): the records it can return, one unless the
\* order of the skills is open; None alone when the experience normalizer
\* raises, which the function's except clause turns into None
\* fallback_records without the except clause's None: the record as far as it
\* was filled when the experience normalizer raised
fallback_records_partial(name, email, phone, skills_set, experience, education, location) ==
    {Record(name, email, phone, NA, NA, education, location)}
fallback_records(name, email, phone, skills_set, experience, education, location) ==
    IF experience.raises THEN {None}
    ELSE IF skills_set = {}
    THEN {Record(name, email, phone, NA, experience.value, education, location)}
    ELSE {Record(name, email, phone, Join(order, <<",", " ">>), experience.value,
                 education, location) : order \in SortedSkills(skills_set)}
\* The fields after the name, which the location scan reads
fallback_rest(cv_text, lines, name, email, phone) ==
    fallback_records(name, email, phone, SkillsFrom(lines, 1, FALSE),
                     scanned_experience(cv_text, lines), scanned_education(lines),
                     scanned_location(lines, name))
\* The name, which the email checks
fallback_fields(cv_text, lines, email) ==
    fallback_rest(cv_text, lines, fallback_name(scanned_name(lines), email), email,
                  DigitsOrNA(PhoneSearch(cv_text)))
_fallback_extraction(cv_text) ==
    fallback_fields(cv_text, Split(cv_text, "\n"), FirstOr(EmailSearchB(cv_text), NA))

(***************************************************************************)
(* extract_cv_data (extract.py)                                            *)
(***************************************************************************)
\* What the one remote call, the removal of the code fence and json.loads
\* leave: the call raised, the answer was no JSON, or the value it parsed to
Raised == [kind |-> "raises"]
NotJson == [kind |-> "invalid"]
NotObject == [kind |-> "other"]
Object(fields) == [kind |-> "object", fields |-> fields]
AnswerAsha ==
    Object([name |-> JStr(<<"a","s","h","a"," ","r","a","o">>), email |-> JStr(<<"a","s","h","a",".","r","a","o","@","e","x","a","m","p","l","e",".","c","o","m">>),
            phone |-> JStr(<<"+","9","1"," ","9","8","7","6","5","-","4","3","2","1","0">>), skills |-> JStr(<<"P","y","t","h","o","n",","," ","S","Q","L",","," ","p","y","t","h","o","n">>),
            experience |-> JStr(<<"A","c","m","e"," ","-"," ","D","e","v","e","l","o","p","e","r"," ","2","0","2","0"," ","-"," ","2","0","2","1">>),
            education |-> JNull, location |-> JStr(<<"P","u","n","e",","," ","I","n","d","i","a">>)])
AnswerManyPlus == Object([name |-> JStr(<<"A","s","h","a"," ","R","a","o">>), phone |-> JStr(<<"+","1","2","3","4","5","6","7","+","8">>)])
AnswerNumber == Object([name |-> JStr(<<"A","s","h","a"," ","R","a","o">>), phone |-> JNum(98765)])
AnswerEmpty == Object([k \in {} |-> JNull])
AnswerBadDate == Object([name |-> JStr(<<"A","s","h","a"," ","R","a","o">>), experience |-> JStr(<<"A","c","m","e"," ","L","t","d"," ","I","n","t","e","r","n"," ","0","7","/","1","3","/","2","0","2","5","-","0","6","/","0","5","/","2","0","2","5">>)])
RemoteAnswers == {Raised, NotJson, NotObject, AnswerAsha, AnswerManyPlus, AnswerNumber,
                  AnswerEmpty, AnswerBadDate}
\* An answer with a long experience: thirteen positions of 42 characters
\* each, 570 characters with the separators
ExperienceEntry == <<"A","c","m","e"," ","L","t","d"," ","-"," ","D","e","v","e","l","o","p","e","r"," ","(","J","a","n"," ","2","0","2","0"," ","-"," ","D","e","c"," ","2","0","2","1",")">>
LongExperience == Join([k \in 1..13 |-> ExperienceEntry], <<",", " ">>)
AnswerLongExperience == Object([name |-> JStr(<<"A","s","h","a"," ","R","a","o">>), experience |-> JStr(LongExperience)])
ServiceAnswers == RemoteAnswers \cup {AnswerLongExperience}

\* The try block of extract_cv_data fails: the call raises, json.loads raises
\* JSONDecodeError, or _validate_and_clean_data raises
try_block(answer) ==
    IF answer.kind \in {"raises", "invalid"} THEN [raises |-> TRUE, value |-> None]
    ELSE _validate_and_clean_data(answer)
TryFails(answer) == try_block(answer).raises
\* How often extract_cv_data calls the remote service
remote_attempts(answer) == 1

\* extract_cv_data(cv_text), given what the remote call leaves: the records
\* it can return (one, unless the fallback's order of skills is open)
\* after_try without the except clauses: a failure of the try block leaves
\* no record instead of the fallback's
after_try_no_fallback(cv_text, tried) ==
    IF tried.raises THEN {None} ELSE {tried.value}
after_try(cv_text, tried) ==
    IF tried.raises THEN _fallback_extraction(cv_text) ELSE {tried.value}
extract_cv_data(cv_text, answer) == after_try(cv_text, try_block(answer))

\* The texts extract_cv_data is called on, and its results and the failures
\* of its try block on each of them, computed once
TextAddress == <<"A","s","h","a"," ","R","a","o","\n","A","d","d","r","e","s","s",":","\n","A","s","h","a"," ","R","a","o",","," ","1","2"," ","M","G"," ","R","o","a","d",","," ","P","u","n","e">>
TextSkillsLine == <<"A","s","h","a"," ","R","a","o","\n","S","k","i","l","l","s",":"," ","P","y","t","h","o","n",","," ","J","a","v","a">>
ExtractTexts ==
    {Strip(d) : d \in Docs} \cup {Strip(b) : b \in Bodies} \cup {TextAddress, TextSkillsLine}
ExtractTable ==
    [t \in ExtractTexts |-> [a \in ServiceAnswers |-> extract_cv_data(t, a)]]
FailsTable == [a \in ServiceAnswers |-> TryFails(a)]
\* The texts on which an exception occurs inside _fallback_extraction
FallbackRaises == {t \in ExtractTexts : scanned_experience(t, Split(t, "\n")).raises}

\* extract_text_from_file(file_path): None for an extension other than .pdf,
\* .docx and .doc and for a file that is missing or cannot be read, else the
\* stripped text
ExtPdf == <<".", "p", "d", "f">>
ExtDocx == <<".", "d", "o", "c", "x">>
ExtDoc == <<".", "d", "o", "c">>
ExtTxt == <<".", "t", "x", "t">>
ExtBin == <<".", "b", "i", "n">>
\* os.path.splitext(file_path)[1].lower() for a path with a dot in its name
splitext(path) == Lower(SubSeq(path, SetMax({i \in 1..Len(path) : path[i] = "."}), Len(path)))
extract_text_from_file(path, dir) ==
    IF splitext(path) \notin {ExtPdf, ExtDocx, ExtDoc} THEN None
    ELSE IF path \notin DOMAIN dir THEN None
    ELSE IF ~dir[path].readable THEN None
    ELSE [tag |-> "str", str |-> Strip(dir[path].text)]

\* extension_map.get(media_content_type, '.bin')
extension_of(media_content_type) ==
    CASE media_content_type = TypePdf -> ExtPdf
      [] media_content_type = TypeDocx -> ExtDocx
      [] media_content_type = TypeDoc -> ExtDoc
      [] media_content_type = TypeTxt -> ExtTxt
      [] OTHER -> ExtBin
\* datetime.now().strftime('%Y%m%d_%H%M%S') at clock reading n: one name per
\* second
strftime(n) == <<"T", DigitOf(n)>>
download_dir == <<"d","o","w","n","l","o","a","d","s","/">>
\* The path download_media writes to
path_of(now, extension) == download_dir \o <<"r","e","s","u","m","e","_">> \o strftime(now) \o extension

(***************************************************************************)
(* State                                                                   *)
(***************************************************************************)
Workers == {"w1", "w2"}
MaxRequests == 2
MaxSeqRequests == 3

VARIABLES
    sheet,      \* the worksheet: its rows, the header first
    clock,      \* the reading of datetime.now()
    nreq,       \* requests received so far
    pc,         \* where each worker's webhook call stands
    msg,        \* message_data of the call
    cv_data,    \* the record extracted by the call, or None
    dup,        \* what check_duplicate returned to the call's append_cv_data
    row_data,   \* row_data of the call's append_cv_data
    result,     \* what append_cv_data returned: None, or (row_number, is_update)
    replies,    \* the messages the call has sent with send_message
    calls,      \* how often the call invoked extract_cv_data and the remote service
    before,     \* the rows that check_duplicate read
    files,      \* the download directory: the content of each file in it
    file_path,  \* the path download_media returned to the call, or <<>>
    text,       \* the text the call hands to extract_cv_data
    arg,        \* the argument of the function under check
    ret         \* and its result

vars == <<sheet, clock, nreq, pc, msg, cv_data, dup, row_data, result, replies,
          calls, before, files, file_path, text, arg, ret>>

NoMsg == [from |-> <<>>, body |-> <<>>, num_media |-> 0, media_url |-> <<>>,
          media_content_type |-> <<>>, timestamp |-> <<>>]
NoDup == [is_duplicate |-> FALSE, row_number |-> 0, existing_data |-> <<>>,
          read_ok |-> FALSE, deleted |-> FALSE]
NoCalls == [extract |-> 0, remote |-> 0, fallback |-> 0, answer |-> "none"]
NoFiles == [f \in {} |-> <<>>]

InitWorkers ==
    /\ pc = [p \in Workers |-> "idle"]
    /\ msg = [p \in Workers |-> NoMsg]
    /\ cv_data = [p \in Workers |-> None]
    /\ dup = [p \in Workers |-> NoDup]
    /\ row_data = [p \in Workers |-> <<>>]
    /\ result = [p \in Workers |-> None]
    /\ replies = [p \in Workers |-> <<>>]
    /\ calls = [p \in Workers |-> NoCalls]
    /\ before = [p \in Workers |-> <<>>]
    /\ file_path = [p \in Workers |-> <<>>]
    /\ text = [p \in Workers |-> <<>>]
    /\ files = NoFiles

\* The store after _initialize_sheet: the header row alone
Init ==
    /\ sheet = <<HEADERS>>
    /\ clock = 0
    /\ nreq = 0
    /\ InitWorkers
    /\ arg = None
    /\ ret = None

(***************************************************************************)
(* The webhook (main.py), one action per blocking step of a call           *)
(***************************************************************************)
send_message(p, kind) == replies' = [replies EXCEPT ![p] = Append(@, kind)]

\* webhook(): parse the form and take the case of the message
Receive(p, limit, forms) ==
    /\ pc[p] \in {"idle", "done"}
    /\ nreq < limit
    /\ \E form \in forms :
        LET message_data == parse_incoming_message(form, clock)
        IN  /\ msg' = [msg EXCEPT ![p] = message_data]
            /\ IF message_data.media_url # <<>>
               THEN /\ pc' = [pc EXCEPT ![p] = "download"]
                    /\ replies' = [replies EXCEPT ![p] = <<>>]
               ELSE IF message_data.body # <<>> /\ Strip(message_data.body) # <<>>
               THEN /\ pc' = [pc EXCEPT ![p] = "text"]
                    /\ replies' = [replies EXCEPT ![p] = <<>>]
               ELSE /\ pc' = [pc EXCEPT ![p] = "done"]
                    /\ replies' = [replies EXCEPT ![p] = <<"welcome">>]
    /\ nreq' = nreq + 1
    /\ cv_data' = [cv_data EXCEPT ![p] = None]
    /\ dup' = [dup EXCEPT ![p] = NoDup]
    /\ row_data' = [row_data EXCEPT ![p] = <<>>]
    /\ result' = [result EXCEPT ![p] = None]
    /\ calls' = [calls EXCEPT ![p] = NoCalls]
    /\ before' = [before EXCEPT ![p] = <<>>]
    /\ file_path' = [file_path EXCEPT ![p] = <<>>]
    /\ text' = [text EXCEPT ![p] = <<>>]
    /\ UNCHANGED <<sheet, clock, files, arg, ret>>

\* CASE 2 of webhook(): the line parser, then the validator; a valid record
\* goes to process_cv_data, an invalid one is answered with the format help
ParseText(p) ==
    /\ pc[p] = "text"
    /\ \E cv \in {ParsedBodies[msg[p].body]} :
           /\ cv_data' = [cv_data EXCEPT ![p] = cv]
           /\ IF cv = None
              THEN /\ pc' = [pc EXCEPT ![p] = "extract_cv"]
                   /\ UNCHANGED replies
              ELSE IF validate_cv_data(cv).is_valid
              THEN /\ pc' = [pc EXCEPT ![p] = "process"]
                   /\ UNCHANGED replies
              ELSE /\ pc' = [pc EXCEPT ![p] = "done"]
                   /\ send_message(p, "format_help")
    /\ text' = [text EXCEPT ![p] = Strip(msg[p].body)]
    /\ UNCHANGED <<sheet, clock, nreq, msg, dup, row_data, result, calls, before,
                   files, file_path, arg, ret>>

\* Where a call goes when process_cv_data is over: CASE 1 cleans up the
\* downloaded file, CASE 2 returns
AfterProcess(p) == IF msg[p].media_url # <<>> THEN "cleanup" ELSE "done"

\* process_cv_data up to check_duplicate's read of the sheet: an invalid
\* record returns False with nothing sent; a valid one gets its metadata
\* and append_cv_data prepares the row and looks for a duplicate
Process(p) ==
    /\ pc[p] = "process"
    /\ IF ~validate_cv_data(cv_data[p]).is_valid
       THEN /\ pc' = [pc EXCEPT ![p] = AfterProcess(p)]
            /\ UNCHANGED <<cv_data, dup, row_data, before>>
       ELSE \E read_ok \in BOOLEAN :
            \E found \in {check_duplicate(sheet, read_ok, cv_data[p].email,
                                          clean_phone(cv_data[p].phone))} :
            LET cv == [tag |-> "dict", name |-> cv_data[p].name,
                       email |-> cv_data[p].email, phone |-> cv_data[p].phone,
                       skills |-> cv_data[p].skills,
                       experience |-> cv_data[p].experience,
                       education |-> cv_data[p].education,
                       location |-> cv_data[p].location,
                       phone_number |-> msg[p].from,
                       submission_timestamp |-> msg[p].timestamp]
            IN  /\ cv_data' = [cv_data EXCEPT ![p] = cv]
                /\ dup' = [dup EXCEPT ![p] =
                            [is_duplicate |-> found.is_duplicate,
                             row_number |-> found.row_number,
                             existing_data |-> found.existing_data,
                             read_ok |-> read_ok, deleted |-> FALSE]]
                /\ row_data' = [row_data EXCEPT ![p] = row_data_of(cv, found.is_duplicate)]
                /\ before' = [before EXCEPT ![p] = sheet]
                /\ pc' = [pc EXCEPT ![p] =
                            IF found.is_duplicate /\ found.row_number # 0
                            THEN "delete" ELSE "append"]
    /\ UNCHANGED <<sheet, clock, nreq, msg, result, replies, calls, files, file_path,
                   text, arg, ret>>

\* delete_row(old_row_number): the row goes, or delete_rows raises and
\* delete_row returns False, which append_cv_data does not look at
DeleteRow(p) ==
    /\ pc[p] = "delete"
    /\ \E ok \in BOOLEAN :
        /\ sheet' = IF ok THEN delete_rows(sheet, dup[p].row_number) ELSE sheet
        /\ dup' = [dup EXCEPT ![p].deleted = ok]
    /\ pc' = [pc EXCEPT ![p] = "append"]
    /\ UNCHANGED <<clock, nreq, msg, cv_data, row_data, result, replies, calls,
                   before, files, file_path, text, arg, ret>>

\* What process_cv_data sends after a successful append_cv_data
confirmation(is_update, has_optional_missing) ==
    IF is_update
    THEN (IF has_optional_missing THEN "updated_partial" ELSE "updated_complete")
    ELSE (IF has_optional_missing THEN "received_partial" ELSE "received_complete")

\* The rest of append_cv_data and of process_cv_data: append_row, the count
\* of the rows, and the reply.  Either call to the store can raise, and
\* append_cv_data then returns None
AppendRow(p) ==
    /\ pc[p] = "append"
    /\ \E outcome \in {"append_raises", "count_raises", "ok"} :
        LET new_sheet == IF outcome = "append_raises" THEN sheet
                         ELSE Append(sheet, row_data[p])
            res == IF outcome = "ok"
                   THEN [tag |-> "tuple", row_number |-> Len(new_sheet),
                         is_update |-> dup[p].is_duplicate]
                   ELSE None
        IN  /\ sheet' = new_sheet
            /\ result' = [result EXCEPT ![p] = res]
            /\ IF res # None
               THEN send_message(p, confirmation(res.is_update,
                        validate_cv_data(cv_data[p]).has_optional_missing))
               ELSE send_message(p, "save_failed")
    /\ pc' = [pc EXCEPT ![p] = AfterProcess(p)]
    /\ UNCHANGED <<clock, nreq, msg, cv_data, dup, row_data, calls, before, files,
                   file_path, text, arg, ret>>

\* CASE 1 of webhook(): download_media. An unsupported type and a failed
\* request give None, and the sender is told; else the file is written under
\* the name of the second
Download(p) ==
    /\ pc[p] = "download"
    /\ LET extension == extension_of(msg[p].media_content_type)
           path == path_of(clock, extension)
       IN  \E fetched \in BOOLEAN :
            IF extension \in {ExtPdf, ExtDocx, ExtDoc} /\ fetched
            THEN /\ files' = [f \in DOMAIN files \cup {path} |->
                                IF f = path THEN Hosted[msg[p].media_url] ELSE files[f]]
                 /\ file_path' = [file_path EXCEPT ![p] = path]
                 /\ pc' = [pc EXCEPT ![p] = "extract_text"]
                 /\ UNCHANGED replies
            ELSE /\ send_message(p, "download_failed")
                 /\ pc' = [pc EXCEPT ![p] = "done"]
                 /\ UNCHANGED <<files, file_path>>
    /\ UNCHANGED <<sheet, clock, nreq, msg, cv_data, dup, row_data, result, calls,
                   before, text, arg, ret>>

\* ExtractText without the message to the sender when there is no text
ExtractTextSilent(p) ==
    /\ pc[p] = "extract_text"
    /\ LET extracted_text == extract_text_from_file(file_path[p], files)
       IN  IF extracted_text = None \/ extracted_text.str = <<>>
           THEN /\ pc' = [pc EXCEPT ![p] = "done"]
                /\ UNCHANGED <<text, replies>>
           ELSE /\ text' = [text EXCEPT ![p] = extracted_text.str]
                /\ pc' = [pc EXCEPT ![p] = "extract_cv"]
                /\ UNCHANGED replies
    /\ UNCHANGED <<sheet, clock, nreq, msg, cv_data, dup, row_data, result, calls,
                   before, files, file_path, arg, ret>>
\* extract_text_from_file: without text the sender is told and the call
\* returns, the file left where it is
ExtractText(p) ==
    /\ pc[p] = "extract_text"
    /\ LET extracted_text == extract_text_from_file(file_path[p], files)
       IN  IF extracted_text = None \/ extracted_text.str = <<>>
           THEN /\ send_message(p, "extraction_failed")
                /\ pc' = [pc EXCEPT ![p] = "done"]
                /\ UNCHANGED text
           ELSE /\ text' = [text EXCEPT ![p] = extracted_text.str]
                /\ pc' = [pc EXCEPT ![p] = "extract_cv"]
                /\ UNCHANGED replies
    /\ UNCHANGED <<sheet, clock, nreq, msg, cv_data, dup, row_data, result, calls,
                   before, files, file_path, arg, ret>>

\* extract_cv_data on the text, then what the webhook does with the result:
\* in CASE 1 no record is answered with a message, and a record goes to
\* process_cv_data; in CASE 2 the record is validated first
ExtractCV(p) ==
    /\ pc[p] = "extract_cv"
    /\ \E answer \in RemoteAnswers :
        \E record \in ExtractTable[text[p]][answer] :
            /\ cv_data' = [cv_data EXCEPT ![p] = record]
            /\ calls' = [calls EXCEPT ![p] =
                    [extract |-> @.extract + 1,
                     remote |-> @.remote + remote_attempts(answer),
                     fallback |-> @.fallback + (IF FailsTable[answer] THEN 1 ELSE 0),
                     answer |-> answer.kind]]
            /\ IF msg[p].media_url # <<>>
               THEN IF record = None
                    THEN /\ send_message(p, "parsing_failed")
                         /\ pc' = [pc EXCEPT ![p] = "done"]
                    ELSE /\ pc' = [pc EXCEPT ![p] = "process"]
                         /\ UNCHANGED replies
               ELSE IF record # None /\ validate_cv_data(record).is_valid
                    THEN /\ pc' = [pc EXCEPT ![p] = "process"]
                         /\ UNCHANGED replies
                    ELSE /\ send_message(p, "format_help")
                         /\ pc' = [pc EXCEPT ![p] = "done"]
    /\ UNCHANGED <<sheet, clock, nreq, msg, dup, row_data, result, before, files,
                   file_path, text, arg, ret>>

\* The end of CASE 1: the downloaded file is removed if it is still there
Cleanup(p) ==
    /\ pc[p] = "cleanup"
    /\ files' = [f \in DOMAIN files \ {file_path[p]} |-> files[f]]
    /\ pc' = [pc EXCEPT ![p] = "done"]
    /\ UNCHANGED <<sheet, clock, nreq, msg, cv_data, dup, row_data, result, replies,
                   calls, before, file_path, text, arg, ret>>

\* The steps of a text message, and those of an attachment
TextStep(p) ==
    \/ ParseText(p)
    \/ Process(p)
    \/ DeleteRow(p)
    \/ AppendRow(p)
MediaStep(p) ==
    \/ Download(p)
    \/ ExtractText(p)
    \/ ExtractCV(p)
    \/ Cleanup(p)

Step(p) == TextStep(p) \/ MediaStep(p)

\* Two workers serve the webhook concurrently
Next == \E p \in Workers : Receive(p, MaxRequests, Forms) \/ Step(p)

Spec == Init /\ [][Next]_vars

\* Text messages one at a time: a call is received only when no other is
\* under way
Idle == \A q \in Workers : pc[q] \in {"idle", "done"}
SeqNext ==
    \E p \in Workers : (Idle /\ Receive(p, MaxSeqRequests, TextForms)) \/ TextStep(p)

SpecSeq == Init /\ [][SeqNext]_vars

\* Attachments one at a time
MaxMediaRequests == 2
MediaNext ==
    \E p \in Workers :
        \/ Idle /\ Receive(p, MaxMediaRequests, AttachmentForms)
        \/ MediaStep(p) \/ Process(p) \/ DeleteRow(p) \/ AppendRow(p)

SpecMedia == Init /\ [][MediaNext]_vars

(***************************************************************************)
(* Functions checked on their own: the argument is drawn in the initial    *)
(* state and one action applies the function to it.                        *)
(***************************************************************************)
InitPipeline ==
    /\ sheet = <<HEADERS>>
    /\ clock = 0
    /\ nreq = 0
    /\ InitWorkers
UNCHANGED_Pipeline ==
    UNCHANGED <<sheet, clock, nreq, pc, msg, cv_data, dup, row_data, result,
                replies, calls, before, files, file_path, text>>

\* The label lines a text message is made of here, one per field
LabelLines == {<<"N","a","m","e",":"," ","A","s","h","a"," ","R","a","o">>,
               <<"E","m","a","i","l",":"," ","a","s","h","a",".","r","a","o","@","e","x","a","m","p","l","e",".","c","o","m">>,
               <<"P","h","o","n","e",":"," ","9","8","7","6","5","4","3","2","1","0">>,
               <<"S","k","i","l","l","s",":"," ","P","y","t","h","o","n",","," ","S","Q","L",","," ","C","o","m","m","u","n","i","c","a","t","i","o","n">>,
               <<"E","x","p","e","r","i","e","n","c","e",":"," ","A","c","m","e"," ","-"," ","D","e","v","e","l","o","p","e","r">>,
               <<"E","d","u","c","a","t","i","o","n",":"," ","M","B","A",","," ","P","u","n","e"," ","U","n","i","v","e","r","s","i","t","y">>,
               <<"L","o","c","a","t","i","o","n",":"," ","P","u","n","e",","," ","I","n","d","i","a">>}
MaxLines == 3
\* The messages of one to MaxLines different label lines, in every order
LineOrders ==
    UNION {{ls \in [1..n -> LabelLines] : \A i, j \in 1..n : i # j => ls[i] # ls[j]} :
            n \in 1..MaxLines}
ParseTexts == {Join(ls, <<"\n">>) : ls \in LineOrders}

InitParse == InitPipeline /\ arg \in ParseTexts /\ ret = None
ApplyParse ==
    /\ ret = None
    /\ ret' = extract_simple_cv_data(arg)
    /\ arg' = arg
    /\ UNCHANGED_Pipeline
SpecParse == InitParse /\ [][ApplyParse]_vars

\* The records the validator is given: the names and emails the extraction
\* paths can produce, and phones of digits and '+' (every path strips the
\* other characters before the validator runs)
ValidatorNames == {NA, <<>>, <<" ">>, <<"A","s","h","a"," ","R","a","o">>, <<"R","a","v","i">>}
ValidatorEmails == {NA, <<>>, <<"a","s","h","a",".","r","a","o","@","e","x","a","m","p","l","e",".","c","o","m">>, <<"a","s","h","a",".","r","a","o">>, <<"@">>}
ValidatorPhones == {NA, <<>>, <<"1","2","3","4","5">>, <<"1","2","3","4","5","6","7","8","9">>, <<"1","2","3","4","5","6","7","8","9","0">>, <<"+","1","2","3","4","5","6","7","8">>, <<"+","1","2","3","4","5","6","7","8","9">>, <<"+","9","1","9","8","7","6","5","4","3","2","1","0">>}
ValidatorRecords ==
    {Record(n, e, ph, NA, NA, NA, o) :
        n \in ValidatorNames, e \in ValidatorEmails, ph \in ValidatorPhones,
        o \in {NA, <<"P","u","n","e",","," ","I","n","d","i","a">>}}

InitValidate == InitPipeline /\ arg \in ValidatorRecords /\ ret = None
ApplyValidate ==
    /\ ret = None
    /\ ret' = validate_cv_data(arg)
    /\ arg' = arg
    /\ UNCHANGED_Pipeline
SpecValidate == InitValidate /\ [][ApplyValidate]_vars

\* extract_cv_data on each text, with each thing the remote call can leave
ExtractArgs == {[cv_text |-> t, answer |-> a] : t \in ExtractTexts, a \in ServiceAnswers}
InitExtract == InitPipeline /\ arg \in ExtractArgs /\ ret = None
ApplyExtract ==
    /\ ret = None
    /\ \E record \in ExtractTable[arg.cv_text][arg.answer] :
        ret' = [tag |-> "returned", value |-> record,
                remote |-> remote_attempts(arg.answer),
                failed |-> FailsTable[arg.answer]]
    /\ arg' = arg
    /\ UNCHANGED_Pipeline
SpecExtract == InitExtract /\ [][ApplyExtract]_vars

\* The normalizer of the remote answer on the objects the remote service can
\* answer with: every choice of name, email, phone and location
CleanNames == {JNull, JStr(<<"a","s","h","a"," ","r","a","o">>), JStr(<<"N","/","A">>)}
CleanEmails == {JNull, JStr(<<"a","s","h","a",".","r","a","o","@","e","x","a","m","p","l","e",".","c","o","m">>)}
CleanPhones == {JNull, JStr(<<"+","9","1"," ","9","8","7","6","5","-","4","3","2","1","0">>), JStr(<<"N","o","t"," ","p","r","o","v","i","d","e","d">>)}
CleanLocations == {JNull, JStr(<<"P","u","n","e">>), JStr(<<"P","u","n","e",","," ","I","n","d","i","a">>), JStr(<<"P","u","n","e"," ","4","1","1","0","0","1">>), JStr(<<"p","u","n","e",",">>), JStr(<<"R","a","o">>)}
CleanAnswers ==
    {Object([name |-> n, email |-> e, phone |-> ph, location |-> l]) :
        n \in CleanNames, e \in CleanEmails, ph \in CleanPhones, l \in CleanLocations}
InitClean == InitPipeline /\ arg \in CleanAnswers /\ ret = None
ApplyClean ==
    /\ ret = None
    /\ ret' = _validate_and_clean_data(arg)
    /\ arg' = arg
    /\ UNCHANGED_Pipeline
SpecClean == InitClean /\ [][ApplyClean]_vars

\* The experience normalizer alone: a position with a date range, the two
\* ends joined by a hyphen or an en dash with some spacing around it
ExperienceTitles == {<<"D","e","v">>, <<"A","c","m","e"," ","L","t","d"," ","I","n","t","e","r","n">>}
DatePairs == {<<<<"2","0","2","0">>, <<"2","0","2","2">>>>, <<<<"2","0","2","0">>, <<"P","r","e","s","e","n","t">>>>, <<<<"J","u","n","e">>, <<"J","u","l","y"," ","2","0","2","5">>>>, <<<<"0","7","/","0","1","/","2","0","2","5">>, <<"0","6","/","0","5","/","2","0","2","5">>>>, <<<<"0","7","/","1","3","/","2","0","2","5">>, <<"0","6","/","0","5","/","2","0","2","5">>>>}
Dashes == {<<"-">>, <<EnDash>>}
Gaps == {<<>>, <<" ">>, <<" ", " ">>}
\* Positions with the city of the company, or its city and region, before
\* the dash
Places == {<<","," ","B","a","n","g","a","l","o","r","e">>, <<","," ","B","a","n","g","a","l","o","r","e",","," ","I","n","d","i","a">>}
PlacedPosition(place, dash) == <<"A","c","m","e">> \o place \o <<" ">> \o dash \o <<" ","D","e","v","e","l","o","p","e","r"," ","(","2","0","2","0"," ","-"," ","2","0","2","2",")">>
PlacedPositions == {PlacedPosition(place, dash) : place \in Places, dash \in Dashes}
ExperienceInputs ==
    {NA, <<>>} \cup PlacedPositions \cup
    {t \o <<" ">> \o d[1] \o g1 \o dash \o g2 \o d[2] :
        t \in ExperienceTitles, d \in DatePairs, g1 \in Gaps, dash \in Dashes, g2 \in Gaps}
InitNormalize == InitPipeline /\ arg \in ExperienceInputs /\ ret = None
ApplyNormalize ==
    /\ ret = None
    /\ ret' = _normalize_experience_format(arg)
    /\ arg' = arg
    /\ UNCHANGED_Pipeline
SpecNormalize == InitNormalize /\ [][ApplyNormalize]_vars

\* extract_name_from_email alone: local parts of one or two tokens, short
\* and long, joined or not by a separator, with or without digits
EmailFirsts == {<<"j","o","h","n">>, <<"a","b">>, <<"a">>, <<"j","o","h","n","D","o","e">>, <<"J","D">>}
EmailSeparators == {<<>>, <<".">>, <<"_">>}
EmailSeconds == {<<>>, <<"d","o","e">>, <<"d">>, <<"d","o","e","1","2","3">>}
EmailDomains == {<<"@","g","m","a","i","l",".","c","o","m">>, <<"@","x",".","c","o","m">>}
EmailInputs ==
    {NA, <<>>, <<"j","o","h","n",".","d","o","e">>} \cup
    {f \o sep \o s \o d :
        f \in EmailFirsts, sep \in EmailSeparators, s \in EmailSeconds, d \in EmailDomains}
InitEmailName == InitPipeline /\ arg \in EmailInputs /\ ret = None
ApplyEmailName ==
    /\ ret = None
    /\ ret' = [value |-> extract_name_from_email(arg)]
    /\ arg' = arg
    /\ UNCHANGED_Pipeline
SpecEmailName == InitEmailName /\ [][ApplyEmailName]_vars

\* The check of a name against an email alone: the verdict of
\* validate_name_with_email, and the name each of its two callers ends with
CheckNames == {<<"A","s","h","a"," ","R","a","o">>, <<"A","s","h","a"," ","K","u","m","a","r">>, <<"R","a","v","i"," ","K","u","m","a","r">>, <<"A","s","h","a"," ","D","e","v","i"," ","R","a","o">>, <<"A","s","h","a"," ","D","e","v","i"," ","K","u","m","a","r"," ","R","a","o">>, <<"a","s","h","a"," ","r","a","o">>, <<"A","s","h","a">>, <<"A","l"," ","R","a","o">>}
CheckEmails == {NA} \cup {<<"a","s","h","a",".","r","a","o","@","e","x","a","m","p","l","e",".","c","o","m">>, <<"a","s","h","a","r","a","o","9","9","@","e","x","a","m","p","l","e",".","c","o","m">>, <<"a",".","r","a","o","@","e","x","a","m","p","l","e",".","c","o","m">>, <<"r","a","v","i","_","k","u","m","a","r","@","x",".","c","o","m">>, <<"i","n","f","o","@","e","x","a","m","p","l","e",".","c","o","m">>, <<"a","s","h","a",".","r","a","o">>, <<"a","s","h","a",".","d","e","v","i",".","r","a","o","@","e","x","a","m","p","l","e",".","c","o","m">>}
NameChecks == {[name |-> n, email |-> e] : n \in CheckNames, e \in CheckEmails}
InitNameCheck == InitPipeline /\ arg \in NameChecks /\ ret = None
ApplyNameCheck ==
    /\ ret = None
    /\ ret' = [verdict |-> validate_name_with_email(arg.name, arg.email),
               cleaned |-> titled(checked_name(arg.name, arg.email)),
               fallback |-> fallback_name(arg.name, arg.email)]
    /\ arg' = arg
    /\ UNCHANGED_Pipeline
SpecNameCheck == InitNameCheck /\ [][ApplyNameCheck]_vars

\* The line parser with the line each field was taken from: messages of
\* labelled lines and of free lines, some of which pass the test of more
\* than one scan
FreeLines == {<<"A","s","h","a"," ","R","a","o">>, <<"a","s","h","a",".","r","a","o","@","e","x","a","m","p","l","e",".","c","o","m">>, <<"9","8","7","6","5","4","3","2","1","0">>, <<"P","y","t","h","o","n",","," ","S","Q","L",","," ","J","a","v","a">>, <<"D","e","v","e","l","o","p","e","r"," ","a","t"," ","A","c","m","e",","," ","P","u","n","e">>, <<"M","B","A",","," ","P","u","n","e"," ","U","n","i","v","e","r","s","i","t","y"," ","-"," ","2","0","2","0">>, <<"E","m","a","i","l",":"," ","n","o","n","e">>, <<"N","a","m","e",":"," ","A","s","h","a"," ","R","a","o">>, <<"S","k","i","l","l","s",":"," ","P","y","t","h","o","n">>}
FreeOrders ==
    UNION {{ls \in [1..n -> FreeLines] : \A i, j \in 1..n : i # j => ls[i] # ls[j]} :
            n \in 1..MaxLines}
SourceTexts == {Join(ls, <<"\n">>) : ls \in FreeOrders}
InitSources == InitPipeline /\ arg \in SourceTexts /\ ret = None
ApplySources ==
    /\ ret = None
    /\ ret' = simple_parse(arg)
    /\ arg' = arg
    /\ UNCHANGED_Pipeline
SpecSources == InitSources /\ [][ApplySources]_vars

\* The store after two earlier submissions, and two workers that serve text
\* messages concurrently
StoredRow(body) ==
    row_data_of([tag |-> "dict", name |-> ParsedBodies[body].name,
                 email |-> ParsedBodies[body].email, phone |-> ParsedBodies[body].phone,
                 skills |-> ParsedBodies[body].skills,
                 experience |-> ParsedBodies[body].experience,
                 education |-> ParsedBodies[body].education,
                 location |-> ParsedBodies[body].location,
                 phone_number |-> Sender1, submission_timestamp |-> isoformat(0)],
                FALSE)
StoredSheet == <<HEADERS, StoredRow(BodyAsha), StoredRow(BodyRavi)>>
MaxStoreRequests == 2
InitStore ==
    /\ sheet = StoredSheet
    /\ clock = 0
    /\ nreq = 0
    /\ InitWorkers
    /\ arg = None
    /\ ret = None
StoreNext == \E p \in Workers : Receive(p, MaxStoreRequests, TextForms) \/ TextStep(p)
SpecStore == InitStore /\ [][StoreNext]_vars

\* Attachments served by two workers concurrently, while the clock goes on
MaxClock == 1
Tick ==
    /\ clock < MaxClock
    /\ clock' = clock + 1
    /\ UNCHANGED <<sheet, nreq, pc, msg, cv_data, dup, row_data, result, replies,
                   calls, before, files, file_path, text, arg, ret>>
\* Two files of one type, one of which cannot be read, and one of another
FileForms == {f \in MediaForms : f.MediaUrl0 \in {Url1, Url2, Url4}
                                   /\ f.MediaContentType0 \in {TypePdf, TypeDocx}}
FilesNext ==
    \/ Tick
    \/ \E p \in Workers :
        \/ Receive(p, MaxMediaRequests, FileForms)
        \/ MediaStep(p) \/ Process(p) \/ DeleteRow(p) \/ AppendRow(p)
SpecFiles == Init /\ [][FilesNext]_vars

(***************************************************************************)
(* The claims                                                              *)
(***************************************************************************)
DataRows(rows) == 2..Len(rows)

\* Two rows hold the same identity: the same email that is not the sentinel,
\* whatever the case of its letters, or the same digits of a phone that has
\* digits
SameEmail(r1, r2) ==
    r1[ColEmail] # NA /\ r2[ColEmail] # NA /\ Lower(r1[ColEmail]) = Lower(r2[ColEmail])
SamePhone(r1, r2) ==
    DigitsOnly(r1[ColPhone]) # <<>> /\ DigitsOnly(r1[ColPhone]) = DigitsOnly(r2[ColPhone])
SameIdentity(r1, r2) == SameEmail(r1, r2) \/ SamePhone(r1, r2)

\* C1: after any sequence of append_cv_data calls that do not overlap,
\* starting from the header alone, no two data rows hold the same email or
\* the same phone digits.
C1_OneRowPerIdentity ==
    \A i, j \in DataRows(sheet) : i < j => ~SameIdentity(sheet[i], sheet[j])

\* The call of worker p has appended its row
Appended(p) ==
    /\ pc[p] \in {"cleanup", "done"}
    /\ row_data[p] # <<>>
    /\ replies[p] # <<>>
    /\ \/ result[p] # None
       \/ \E i \in DataRows(sheet) : sheet[i] = row_data[p]

\* C2: two submissions with the same email or phone, processed concurrently
\* with their store steps interleaved, never both pass duplicate detection
\* (check_duplicate read the sheet and found nothing) and leave two rows for
\* the same identity.
C2_NoDoubleInsert ==
    \A p, q \in Workers :
        (/\ p # q
         /\ result[p] # None /\ result[q] # None
         /\ dup[p].read_ok /\ dup[q].read_ok
         /\ ~dup[p].is_duplicate /\ ~dup[q].is_duplicate
         /\ SameIdentity(row_data[p], row_data[q]))
        => ~(\E i, j \in DataRows(sheet) :
                i # j /\ sheet[i] = row_data[p] /\ sheet[j] = row_data[q])

\* The call of worker p is a text message that the webhook has validated
TextValidated(p) ==
    /\ msg[p].media_url = <<>>
    /\ msg[p].body \in Bodies
    /\ pc[p] \in {"process", "delete", "append", "done"}

\* C4: for a text message whose line-parser record has the sentinel as name,
\* the webhook invokes extract_cv_data on the text before it validates.
C4_FallsBackToExtractor ==
    \A p \in Workers :
        (TextValidated(p) /\ extract_simple_cv_data(Strip(msg[p].body)).name = NA)
        => calls[p].extract > 0

\* The field a label line names, and the value the line gives it
LabelOf == [f \in {"name", "email", "phone", "skills", "experience", "education",
                   "location"} |->
              CASE f = "name" -> LabelName [] f = "email" -> LabelEmail
                [] f = "phone" -> LabelPhone [] f = "skills" -> LabelSkills
                [] f = "experience" -> LabelExperience
                [] f = "education" -> LabelEducation
                [] f = "location" -> LabelLocation]
TextAfterLabel(line) == Strip(AfterFirst(line, ":"))
AshaExample == <<"N","a","m","e",":"," ","A","s","h","a"," ","R","a","o","\n","E","m","a","i","l",":"," ","a","s","h","a",".","r","a","o","@","e","x","a","m","p","l","e",".","c","o","m","\n","S","k","i","l","l","s",":"," ","P","y","t","h","o","n",","," ","S","Q","L",","," ","C","o","m","m","u","n","i","c","a","t","i","o","n">>

\* C5: in the line parser a line that starts with a field label sets that
\* field to the text after the label, whichever other lines the message holds
\* and in whatever order; the message of the Name, Email and Skills lines
\* yields skills 'Python, SQL, Communication' and the sentinel for phone,
\* experience, education and location.
C5_LabelSetsField ==
    (ret # None /\ arg \in ParseTexts) =>
        /\ \A f \in DOMAIN LabelOf :
            \A line \in {l \in LabelLines : StartsWith(Lower(l), LabelOf[f])} :
                (\E k \in 1..Len(Split(arg, "\n")) : Split(arg, "\n")[k] = line)
                => ret[f] = TextAfterLabel(line)
        /\ arg = AshaExample =>
            /\ ret.skills = <<"P","y","t","h","o","n",","," ","S","Q","L",","," ","C","o","m","m","u","n","i","c","a","t","i","o","n">>
            /\ ret.phone = NA /\ ret.experience = NA
            /\ ret.education = NA /\ ret.location = NA

\* C6: validate_cv_data reports a record valid exactly when its name is not
\* the sentinel and not empty after trimming, and its email is not the
\* sentinel and holds '@' or its phone is not the sentinel and has at least
\* 10 characters; a sentinel name is reported as missing ['name'], and a
\* named record without email whose phone is too short as missing
\* ['email or phone'].
C6_ValidIff ==
    (ret # None /\ arg \in ValidatorRecords) =>
        LET name_ok == arg.name # NA /\ Strip(arg.name) # <<>>
            email_ok == arg.email # NA /\ \E i \in 1..Len(arg.email) : arg.email[i] = "@"
            phone_ok == arg.phone # NA /\ Len(arg.phone) >= 10
        IN  /\ ret.is_valid <=> (name_ok /\ (email_ok \/ phone_ok))
            /\ arg.name = NA => (~ret.is_valid /\ ret.missing_fields = <<"name">>)
            /\ (name_ok /\ ~email_ok /\ ~phone_ok)
                => (~ret.is_valid /\ ret.missing_fields = <<"email or phone">>)
\* A named record without email and with a five-digit phone was validated
C6_Witness ==
    /\ ret # None /\ arg \in ValidatorRecords
    /\ arg.name = <<"A","s","h","a"," ","R","a","o">> /\ arg.email = NA /\ arg.phone = <<"1","2","3","4","5">>
    /\ ~ret.is_valid

\* The call of worker p has run check_duplicate
Checked(p) == before[p] # <<>>
\* A row matches the email and phone given to check_duplicate, as the
\* specification words it
ClaimedMatch(row, email, phone) ==
    \/ row[ColEmail] # NA /\ email # NA /\ Lower(row[ColEmail]) = Lower(email)
    \/ DigitsOnly(row[ColPhone]) # <<>> /\ DigitsOnly(row[ColPhone]) = DigitsOnly(phone)
ClaimedResult(rows, email, phone) ==
    LET hits == {i \in DataRows(rows) : ClaimedMatch(rows[i], email, phone)}
    IN  IF hits # {}
        THEN [is_duplicate |-> TRUE, row_number |-> SetMin(hits),
              existing_data |-> rows[SetMin(hits)]]
        ELSE [is_duplicate |-> FALSE, row_number |-> 0, existing_data |-> <<>>]
Returned(p) ==
    [is_duplicate |-> dup[p].is_duplicate, row_number |-> dup[p].row_number,
     existing_data |-> dup[p].existing_data]

\* C8: check_duplicate reports a duplicate exactly when some data
\* row matches by email or by phone digits, with the first such row's number
\* and fields, and (False, None, None) otherwise.
C8_DuplicateIff ==
    \A p \in Workers :
        Checked(p) =>
            Returned(p) = ClaimedResult(before[p], row_data[p][ColEmail], row_data[p][ColPhone])


\* Worker p's append_row adds its row in this step
Appends(p) == pc[p] = "append" /\ sheet' = Append(sheet, row_data[p])

\* C9: whenever append_cv_data appends a row with Status 'Updated', the
\* stored row that matched has been removed before the append; whenever no
\* stored row matches, the row is appended with Status 'New' and no row is
\* removed.
C9_ReplaceRemovesOld ==
    [][\A p \in Workers :
        Appends(p) =>
            /\ row_data[p][ColStatus] = StatusUpdated
                => sheet = delete_rows(before[p], dup[p].row_number)
            /\ (\A i \in DataRows(before[p]) :
                    ~ClaimedMatch(before[p][i], row_data[p][ColEmail], row_data[p][ColPhone]))
                => (row_data[p][ColStatus] = StatusNew /\ sheet = before[p])]_vars

\* C3: every message the webhook has handled, an attachment, a text or an
\* empty one, has been answered when the request ends, whatever the download,
\* the text extraction, the structured extraction, the validation and the
\* store did.
C3_AlwaysReplies ==
    \A p \in Workers : pc[p] = "done" => replies[p] # <<>>

\* A stored row meets the minimum the validator asks of a record
RowIsViable(row) ==
    /\ row[ColName] # NA /\ Strip(row[ColName]) # <<>>
    /\ \/ Contains(row[ColEmail], <<"@">>)
       \/ (row[ColPhone] # NA /\ Len(row[ColPhone]) >= 10)

\* C7: every row process_cv_data has written has a name that is neither the
\* sentinel nor empty, and an email with '@' or a phone of ten characters or
\* more.
C7_RowsAreViable ==
    \A i \in DataRows(sheet) : RowIsViable(sheet[i])

\* C10: when the remote request raises, the answer is no JSON, or the
\* normalizer raises on the parsed answer, extract_cv_data returns what
\* _fallback_extraction returns for the same text, after one remote attempt.
C10_FailureFallsBack ==
    (ret # None /\ arg \in ExtractArgs /\ ret.failed) =>
        /\ ret.value \in _fallback_extraction(arg.cv_text)
        /\ ret.remote = 1
\* The normalizer raised on a parsed answer and extract_cv_data returned the
\* fallback's record, with the email the fallback found in the text
C10_Witness ==
    /\ ret # None /\ arg \in ExtractArgs /\ ret.failed
    /\ arg.answer.kind = "object"
    /\ ret.value # None /\ ret.value.email # NA

\* The call of worker p ran the regex fallback on a text on which it raises
FallbackRaised(p) ==
    /\ calls[p].fallback > 0
    /\ text[p] \in FallbackRaises

\* C11: when an exception occurs inside the regex fallback, extraction yields
\* None and no record; the webhook answers with the resubmission prompt and
\* the call prepares and writes no row.
C11_FallbackFailureIsTotal ==
    \A p \in Workers :
        FallbackRaised(p) =>
            /\ cv_data[p] = None
            /\ pc[p] = "done"
            /\ replies[p] = <<"parsing_failed">>
            /\ row_data[p] = <<>> /\ result[p] = None
\* The fallback raised on an attachment's text after the remote call failed
C11_Witness ==
    \E p \in Workers :
        /\ FallbackRaised(p) /\ calls[p].answer = "raises"
        /\ msg[p].media_url # <<>> /\ pc[p] = "done"

\* An optional '+' in front, then one or more digits and nothing else
IsPlusDigits(phone) ==
    /\ Len(phone) >= 1
    /\ \A i \in 2..Len(phone) : IsDigit(phone[i])
    /\ IsDigit(phone[1]) \/ (phone[1] = "+" /\ Len(phone) >= 2)

\* C12: the phone the normalizer of the remote answer produces, when it is
\* not the sentinel, is an optional single leading '+' followed by one or
\* more digits.
C12_PhoneIsPlusDigits ==
    (ret # None /\ arg \in ExtractArgs /\ ~ret.failed /\ ret.value.phone # NA)
        => IsPlusDigits(ret.value.phone)

\* The entries of a skills field: what stands between its commas, trimmed
SkillEntries(skills) == StripAll(Split(skills, ","))
NoRepeatedSkill(skills) ==
    \A i, j \in 1..Len(SkillEntries(skills)) :
        i < j => Lower(SkillEntries(skills)[i]) # Lower(SkillEntries(skills)[j])

\* C13: in every record extract_cv_data returns, from the normalizer of the
\* remote answer or from the regex fallback, the skills field, when it is
\* not the sentinel, holds no two entries that are equal when letter case is
\* ignored.
C13_NoRepeatedSkill ==
    (ret # None /\ arg \in ExtractArgs /\ ret.value # None /\ ret.value.skills # NA)
        => NoRepeatedSkill(ret.value.skills)

\* C14: in every record extract_cv_data returns whose name and location are
\* both not the sentinel, the lowercased location is no substring of the
\* lowercased name and the lowercased name none of the lowercased location.
C14_LocationIsNotName ==
    (/\ ret # None /\ arg \in ExtractArgs /\ ret.value # None
     /\ ret.value.name # NA /\ ret.value.location # NA)
        => /\ ~Contains(Lower(ret.value.name), Lower(ret.value.location))
           /\ ~Contains(Lower(ret.value.location), Lower(ret.value.name))

\* The tokens of a location: what its commas and spaces separate
LocationTokens(location) ==
    Words([i \in 1..Len(location) |-> IF location[i] = "," THEN " " ELSE location[i]])
\* A location of fewer than two tokens holding no digit
IsBareLocation(location) ==
    /\ Len(LocationTokens(location)) < 2
    /\ \A i \in 1..Len(location) : ~IsDigit(location[i])

\* C15: the normalizer of the remote answer replaces by the sentinel every
\* location of fewer than two tokens that holds no digit, whatever the name
\* is, the sentinel included.
C15_BareLocationDiscarded ==
    (/\ ret # None /\ arg \in CleanAnswers /\ ~ret.raises
     /\ IsStr(arg.fields.location) /\ IsBareLocation(arg.fields.location.str))
        => ret.value.location = NA

\* The seven fields of a record
FieldNames == {required_fields[i] : i \in 1..Len(required_fields)}

\* C16: every record the normalizer of the remote answer returns holds the
\* seven fields, and none of them is the empty string: a field without a
\* value is the sentinel.
C16_FieldsPresent ==
    (ret # None /\ arg \in CleanAnswers /\ ~ret.raises) =>
        /\ FieldNames \subseteq DOMAIN ret.value
        /\ \A k \in FieldNames : ret.value[k] # <<>>

\* C17: normalizing the output of the experience normalizer again returns
\* that same output, also when the ends of a range are joined by an en dash
\* or have irregular spacing around the dash
C17_NormalizerIdempotent ==
    (ret # None /\ arg \in ExperienceInputs /\ ~ret.raises) =>
        _normalize_experience_format(ret.value) = ret

\* The numeric date ranges of an experience string, and for the one at i
\* the text the specification gives it: the months of the two dates, taken
\* from the component its example takes them from
NumericRangesOf(s) == {i \in 1..Len(s) : NumericRangeEnd(s, i) # 0}
MonthComponent(s, i) == ToInt(SubSeq(s, i + 3, i + 4))
MonthName(m) == IF m \in 1..12 THEN MonthChars[m] ELSE <<>>
ExpectedRange(s, i, j) ==
    <<"(">> \o MonthName(MonthComponent(s, i)) \o <<" ">> \o SubSeq(s, i + 6, i + 9)
        \o <<" ", "-", " ">> \o MonthName(MonthComponent(s, j)) \o <<" ">>
        \o SubSeq(s, j + 6, j + 9) \o <<")">>
\* C18: for an experience string with a numeric date range joined by '-',
\* the normalizer returns without raising, and the range is replaced by
\* '(Mon YYYY - Mon YYYY)' with the months of the two dates
C18_NumericRangeRewritten ==
    (ret # None /\ arg \in ExperienceInputs /\ NumericRangesOf(arg) # {}) =>
        /\ ~ret.raises
        /\ \A i \in NumericRangesOf(arg) :
            Contains(ret.value, ExpectedRange(arg, i, SecondDateAt(arg, i)))

\* C19: extract_name_from_email returns 'John Doe' for
\* 'john.doe123@gmail.com', and the empty string for 'ab@x.com', whose
\* local part is one token of two characters
C19_NameFromEmail ==
    (ret # None /\ arg \in EmailInputs) =>
        /\ arg = <<"j","o","h","n",".","d","o","e","1","2","3","@","g","m","a","i","l",".","c","o","m">> => ret.value = <<"J","o","h","n"," ","D","o","e">>
        /\ arg = <<"a","b","@","x",".","c","o","m">> => ret.value = <<>>

\* The trailing marker of a truncated experience
Ellipsis == <<".", ".", ".">>
\* C20: on the path of the remote answer, the experience of the record
\* extract_cv_data returns is never longer than 500 characters plus the
\* ellipsis
C20_ExperienceTruncated ==
    (ret # None /\ arg \in ExtractArgs /\ ~ret.failed) =>
        Len(ret.value.experience) <= 500 + Len(Ellipsis)

\* C21: when the confidence of a name against the email is at least 50,
\* validate_name_with_email reports the name plausible and suggests the
\* extracted name itself, and neither caller replaces the name: the
\* normalizer of the remote answer ends with it (in title case), the regex
\* fallback with it as it is
C21_PlausibleNameKept ==
    (ret # None /\ arg \in NameChecks /\ ret.verdict.confidence >= 50) =>
        /\ ret.verdict.is_valid
        /\ ret.verdict.suggested_name = arg.name
        /\ ret.cleaned = Title(arg.name)
        /\ ret.fallback = arg.name
\* A name half of whose parts are in the email, which suggests another name
C21_Witness ==
    /\ ret # None /\ arg \in NameChecks
    /\ Contains(arg.email, <<"@">>)
    /\ ret.verdict.confidence = 50
    /\ extract_name_from_email(arg.email) \notin {<<>>, arg.name}
    /\ ret.fallback = arg.name

\* The call of worker p downloaded its attachment and got no text from it
NoTextExtracted(p) ==
    /\ msg[p].media_url # <<>> /\ file_path[p] # <<>>
    /\ pc[p] # "extract_text" /\ text[p] = <<>>
\* C22: extract_text_from_file gives None for an extension it does not
\* support and for a file that cannot be read; the webhook treats None as it
\* treats an empty text: it answers with the retry prompt, does not call
\* extract_cv_data and writes nothing to the sheet
C22_NoTextIsRetry ==
    /\ \A extension \in {ExtTxt, ExtBin} :
        extract_text_from_file(path_of(clock, extension), files) = None
    /\ \A f \in DOMAIN files : ~files[f].readable => extract_text_from_file(f, files) = None
    /\ \A p \in Workers :
        NoTextExtracted(p) =>
            /\ pc[p] = "done"
            /\ replies[p] = <<"extraction_failed">>
            /\ calls[p].extract = 0 /\ cv_data[p] = None
            /\ row_data[p] = <<>> /\ result[p] = None
\* One call ended on a file that cannot be read, another on a file whose
\* text is empty
C22_Witness ==
    \E p, q \in Workers :
        /\ NoTextExtracted(p) /\ msg[p].media_url = Url4
        /\ NoTextExtracted(q) /\ msg[q].media_url = Url6

\* C23: for a position 'Company, City - Title (dates)' or 'Company, City,
\* Region - Title (dates)' the normalizer removes the place before the dash
\* and returns 'Company - Title (dates)'
C23_PlaceRemoved ==
    (ret # None /\ arg \in PlacedPositions) =>
        /\ ~ret.raises
        /\ ret.value = <<"A","c","m","e"," ","-"," ","D","e","v","e","l","o","p","e","r"," ","(","2","0","2","0"," ","-"," ","2","0","2","2",")">>

\* A name as the regex fallback extracts it: two to four words in title case
IsFallbackName(name) ==
    /\ Len(Words(name)) >= 2 /\ Len(Words(name)) <= 4
    /\ Title(name) = name
\* C24: for every extracted name of two to four words and every email, the
\* regex fallback ends with the same name as the normalizer of the remote
\* answer does for that name and email
C24_FallbackNameAsCleaned ==
    (ret # None /\ arg \in NameChecks /\ IsFallbackName(arg.name)) =>
        ret.fallback = ret.cleaned
\* A name of medium confidence, where only the normalizer has a branch, with
\* an email that gives a name of more words: both keep the extracted name
C24_Witness ==
    /\ ret # None /\ arg \in NameChecks /\ IsFallbackName(arg.name)
    /\ ret.verdict.confidence >= LowConfidence
    /\ ret.verdict.confidence < MediumConfidence
    /\ Len(Words(extract_name_from_email(arg.email))) > Len(Words(arg.name))
    /\ ret.fallback = arg.name /\ ret.cleaned = arg.name

\* The words of the technology vocabulary a text holds in some line
KeywordsIn(cv_text) ==
    {k \in tech_keywords :
        \E i \in 1..Len(Split(cv_text, "\n")) : Contains(Lower(Split(cv_text, "\n")[i]), k)}
\* C25: in the regex fallback every line is scanned for the technology
\* vocabulary whatever the state of the skills section: a word of the
\* vocabulary in any line, the line of a skills header included, is among
\* the skills of the record
C25_KeywordsAreSkills ==
    (ret # None /\ arg \in ExtractArgs /\ ret.failed /\ ret.value # None) =>
        \A k \in KeywordsIn(arg.cv_text) :
            \E i \in 1..Len(SkillEntries(ret.value.skills)) :
                Lower(SkillEntries(ret.value.skills)[i]) = k

\* C26: in the line parser each line gives the value of at most one field:
\* over the labelled pass and the four scans, no line is the source of two
\* fields of the record
C26_OneFieldPerLine ==
    (ret # None /\ arg \in SourceTexts) =>
        \A f, g \in DOMAIN ret.source :
            (f # g /\ ret.source[f] # 0) => ret.source[f] # ret.source[g]
\* A line that passes the tests of the skills scan and of the experience
\* scan gave the skills, and the experience is not taken from it
C26_Witness ==
    /\ ret # None /\ arg \in SourceTexts
    /\ ret.source["skills"] # 0
    /\ LooksLikeExperience(StrippedLines(arg)[ret.source["skills"]])
    /\ ret.cv_data.skills = StrippedLines(arg)[ret.source["skills"]]
    /\ ret.source["experience"] # ret.source["skills"]

\* The sheet of two stored submissions is one the webhook reaches from the
\* empty sheet
StoredSheetNotReached == sheet # StoredSheet
\* C27: under every interleaving of concurrent append_cv_data calls, the row
\* a call's delete_row removes is the row its check_duplicate matched: it
\* never removes a row of another identity, one that matches neither the
\* email nor the phone of the call
C27_DeletesMatchedRow ==
    [][\A p \in Workers :
        (/\ pc[p] = "delete" /\ pc'[p] = "append" /\ dup'[p].deleted
         /\ dup[p].row_number \in 2..Len(sheet)) =>
            row_matches(sheet[dup[p].row_number], cv_data[p].email,
                        clean_phone(cv_data[p].phone))]_vars

\* The call of worker p is over and its append_cv_data returned None
AppendFailed(p) ==
    /\ pc[p] = "done" /\ row_data[p] # <<>> /\ result[p] = None
\* C28: when append_cv_data returns None, the sheet holds the rows it held
\* before the call: a replace that fails does not leave the earlier row of
\* the candidate deleted with no new row appended
C28_FailureLeavesRows ==
    \A p \in Workers : AppendFailed(p) => sheet = before[p]

\* The call of worker p has downloaded its attachment and has not finished
HoldsFile(p) ==
    /\ file_path[p] # <<>>
    /\ pc[p] \in {"extract_text", "extract_cv", "process", "delete", "append", "cleanup"}
\* C29: two submissions with attachments that are processed concurrently
\* never use the same download path
C29_PathsDiffer ==
    \A p, q \in Workers :
        (p # q /\ HoldsFile(p) /\ HoldsFile(q)) => file_path[p] # file_path[q]

\* C30: when the webhook finishes a message whose attachment was downloaded,
\* the downloaded file no longer exists, whatever the outcome: no text, no
\* record, a record that is not valid, a store that failed, a row stored
C30_FileRemoved ==
    [][\A p \in Workers :
        (pc[p] # "done" /\ pc'[p] = "done" /\ file_path[p] # <<>>) =>
            file_path[p] \notin DOMAIN files']_vars

====
